---- MODULE Spec2Model ----
(***************************************************************************)
(* ParkPulse backend: the ledger-interaction layer.                        *)
(*   src/blockchain.py       FlowBlockchainService (create / query)        *)
(*   src/close_proposals.py  ProposalCloser        (closure sweep)         *)
(* Time is in whole seconds.  Strings whose content does not matter are    *)
(* modelled by their length; a Python dict is a record holding exactly the *)
(* keys the code puts into it.                                             *)
(***************************************************************************)
EXTENDS Integers, Sequences, FiniteSets, TLC

(* ---------------------------------------------------------------- bounds *)
\* the clock reading when the behaviour starts
T0 == 1000000
\* the longest an external call (summarizer, account read) is seen to take
MaxDelay == 1
\* proposals on the ledger when a sweep starts
MaxProposals == 2
\* how many times the closure script is run
MaxRuns == 2
MaxUnits == 1
MaxCallerRetries == 1

(* ----------------------------------------------------- program constants *)
max_attempts == 30
SleepSeconds == 2
buffer_time == 3600
ThirtyDays == 30 * 24 * 3600
\* balance / 1e8 < 0.001, in the ledger's smallest unit
MinBalanceUnits == 100000
MinSummaryLen == 230
MaxSummaryLen == 240
\* len(" Environmental impact assessment indicates significant changes.")
FillerLen == 63
\* get_proposal's retry policy
max_retries == 3
retry_delay == 2
\* Flow transaction status codes; the code names only 4 = SEALED
TxStatus == [PENDING |-> 1, FINALIZED |-> 2, EXECUTED |-> 3, SEALED |-> 4, EXPIRED |-> 5]
explorer_base_url == "https://testnet.flowdiver.io"

(* ------------------------------------------------------------ input sets *)
\* c1's call meets every input below; c2 and c3 are the two callers of the
\* concurrent submissions, each with the draft ConcurrentDraft
Callers == {"c1", "c2", "c3"}
ConcurrentCallers == {"c2", "c3"}
Unparseable == -1
\* a draft's end date once parsed (end of day), as an offset from T0
EndOffsets == {-86400, 3599, 3600, 3601, 3602, 90000}
EndDates == {Unparseable} \cup {T0 + o : o \in EndOffsets}
ParkNameLens == {15}
\* length of the summarizer's stripped reply; SummarizerFails = it raised
SummarizerFails == -1
SummarizerOutputs == {SummarizerFails, 100, 200, 229, 230, 240, 241}
Balances == {0, MinBalanceUnits - 1, MinBalanceUnits}
Addresses == {"", "f8d6e0586b0a20c7"}
\* FLOW_CONTRACT_ADDRESS defaults to FLOW_ADDRESS
Configs ==
    { cf \in [address : Addresses, contract_address : Addresses, private_key : BOOLEAN] :
         cf.address # "" => cf.contract_address # "" }
LedgerErrors == {"", "execution reverted"}
\* the concurrent callers: a valid end date, a reply in range, no delay
ConcurrentDraft == [endDate |-> T0 + 90000, parkNameLen |-> 15]
ConcurrentOutputs == {MinSummaryLen}
SummarizerOutputsOf(c) == IF c \in ConcurrentCallers THEN ConcurrentOutputs ELSE SummarizerOutputs
DelaysOf(c) == IF c \in ConcurrentCallers THEN {0} ELSE 0..MaxDelay

VARIABLES
    now,            \* wall clock (datetime.now().timestamp())
    config,         \* the environment: address, private key present
    ledger,         \* the external ledger: account, transactions, counter
    pc,             \* per caller: position in create_proposal_on_blockchain
    draft,          \* per caller: proposal_data
    locals,         \* per caller: the flow's local variables
    result,         \* per caller: the dict returned to the caller
    calls,          \* per caller: calls made on the collaborators
    sweeper,        \* the ProposalCloser script: position, locals, counters
    query,          \* the query service: one call of a read operation
    agent           \* the agent's create-proposal handler and its caller

vars == <<now, config, ledger, pc, draft, locals, result, calls, sweeper, query, agent>>

NoResult == [none |-> TRUE]
\* Python values: None, an int, a str; an object is a record of its attributes
None == [is_none |-> TRUE]
PyInt(n) == [int |-> n]
PyStr(t) == [str |-> t]
\* the float 0.0 (a float is m * 2^(-k))
FloatZero == [m |-> <<>>, k |-> 0]
NoTx == [kind |-> "none"]
NoResponse == [status |-> 0, status_code |-> 0, error_message |-> ""]
NoAccount == [sequence_number |-> -1, balance |-> -1]

NoLocals ==
    [ connected |-> FALSE, end_timestamp |-> 0,
      description |-> [kind |-> "none", len |-> 0],
      account |-> NoAccount,
      tx |-> NoTx, tx_id |-> 0, sentAt |-> 0, attempt |-> 0, wakeAt |-> 0,
      tx_result_response |-> NoResponse ]

\* the script before ProposalCloser() is constructed
NoSweeper ==
    [ pc |-> "init", active_proposals |-> <<>>, idx |-> 0, current_time |-> 0,
      closed_count |-> 0, skipped_count |-> 0, failed_count |-> 0,
      account |-> NoAccount, tx |-> NoTx, tx_id |-> 0, attempt |-> 0,
      tx_result_response |-> NoResponse, sent |-> 0, close_error |-> "none",
      outcome |-> <<>>, log |-> NoResult,
      run |-> 1, ever_closed |-> <<>>, txs_before |-> 0 ]

NoCalls ==
    [ ping |-> 0, get_account |-> 0, summarizer |-> 0, get_latest_block |-> 0,
      send_transaction |-> 0, get_transaction_result |-> 0, sleep |-> 0,
      get_total_proposals |-> 0 ]

\* the query service before a call
NoQuery ==
    [ pc |-> "idle", op |-> "none", proposal_id |-> 0, attempt |-> 0, retry_delay |-> 0,
      executed |-> 0, got |-> "none", slept |-> <<>>, errors |-> <<>>, value |-> None,
      x |-> FloatZero, raw |-> <<>>, ret |-> NoResult, raised |-> FALSE ]

\* the agent before a create-proposal request
\* (storage: main.session_storage; analyses: how many removal analyses have run;
\* stored: the analyses in the order they were stored, with their session ids;
\* read_at: how many had been stored when the create-proposal handler looked)
NoAgent ==
    [ pc |-> "idle", notified |-> 0, notifier |-> "none", reply |-> NoResult, retries |-> 0,
      storage |-> <<>>, analyses |-> 0, session_id |-> "none", proposal_data |-> NoResult,
      stored |-> <<>>, read_at |-> 0 ]

(* -------------------------------------------------------- pure functions *)

\* a strict comparison: a date exactly one hour ahead is kept
NormalizeEndDate_strict(end_timestamp, current_time) ==
    IF end_timestamp < current_time + buffer_time
    THEN current_time + ThirtyDays + buffer_time
    ELSE end_timestamp

\* blockchain.py 130-132: the safety-buffer override
NormalizeEndDate(end_timestamp, current_time) ==
    IF end_timestamp <= current_time + buffer_time
    THEN current_time + ThirtyDays + buffer_time
    ELSE end_timestamp

\* blockchain.py 113-120: strptime + end of day, or the 30-day default
ParseEndDate(endDate, current_time) ==
    IF endDate = Unparseable THEN current_time + ThirtyDays ELSE endDate

\* blockchain.py 476-480: the length constraints applied to the reply
ConstrainSummary(len) ==
    IF len < MinSummaryLen THEN len + FillerLen
    ELSE IF len > MaxSummaryLen THEN MaxSummaryLen
    ELSE len

\* blockchain.py 487-492: f"{park_name}: NDVI {before}→{after}, PM2.5 +{inc}%"
\* with the scenario's metrics 0.7, 0.2 and 75.0
FallbackSummary(parkNameLen) ==
    parkNameLen + 7 + 3 + 1 + 3 + 9 + 4 + 1

\* the threshold itself rejected
InsufficientBalance_inclusive(balance) == balance <= MinBalanceUnits

\* blockchain.py 164
InsufficientBalance(balance) == balance < MinBalanceUnits

\* one poll too many
LoopContinues_offByOne(attempt) == attempt <= max_attempts

\* blockchain.py 289: while attempt < max_attempts
LoopContinues(attempt) == attempt < max_attempts

\* blockchain.py 294: tx_result_response.status >= 4
TreatedAsSealed(status) == status >= TxStatus.SEALED

\* the result's status_code: 0 unless the transaction failed
StatusCode(error_message) == IF error_message = "" THEN 0 ELSE 1

ExplorerUrl(tx_id) == <<explorer_base_url, "/transaction/", tx_id>>

(* ---- Python's float arithmetic (IEEE 754 binary64, round to nearest even)
   on the two conversions: integers too wide for a machine word are
   sequences of base-10000 digits, least significant first; a float is
   m * 2^(-k) with 2^52 <= m < 2^53, or zero ---- *)
RECURSIVE Trim(_)
Trim(a) == IF a = <<>> THEN a
           ELSE IF a[Len(a)] = 0 THEN Trim(SubSeq(a, 1, Len(a) - 1)) ELSE a

RECURSIVE TwiceFrom(_, _)
TwiceFrom(a, carry) ==
    IF a = <<>> THEN (IF carry = 0 THEN <<>> ELSE <<carry>>)
    ELSE <<(2 * a[1] + carry) % 10000>> \o TwiceFrom(Tail(a), (2 * a[1] + carry) \div 10000)
Twice(a) == TwiceFrom(a, 0)

RECURSIVE HalfFrom(_, _)
HalfFrom(a, rem) ==
    IF a = <<>> THEN <<>>
    ELSE LET cur == rem * 10000 + a[Len(a)]
         IN  Append(HalfFrom(SubSeq(a, 1, Len(a) - 1), cur % 2), cur \div 2)
Half(a) == Trim(HalfFrom(a, 0))
Odd(a) == a # <<>> /\ a[1] % 2 = 1

RECURSIVE Succ(_)
Succ(a) == IF a = <<>> THEN <<1>>
           ELSE IF a[1] < 9999 THEN <<a[1] + 1>> \o Tail(a)
           ELSE <<0>> \o Succ(Tail(a))

RECURSIVE Less(_, _)
Less(a, b) ==
    IF Len(a) # Len(b) THEN Len(a) < Len(b)
    ELSE IF a = <<>> THEN FALSE
    ELSE IF a[Len(a)] # b[Len(b)] THEN a[Len(a)] < b[Len(b)]
    ELSE Less(SubSeq(a, 1, Len(a) - 1), SubSeq(b, 1, Len(b) - 1))

TwoTo52 == <<496, 2737, 5996, 4503>>
TwoTo53 == <<992, 5474, 1992, 9007>>
Normal(m, k) == IF m = TwoTo53 THEN [m |-> TwoTo52, k |-> k - 1] ELSE [m |-> m, k |-> k]

\* the last eight decimal digits of a, and the digits above them
Low8(a) == (IF Len(a) >= 1 THEN a[1] ELSE 0) + 10000 * (IF Len(a) >= 2 THEN a[2] ELSE 0)
Drop8(a) == IF Len(a) <= 2 THEN <<>> ELSE SubSeq(a, 3, Len(a))

RECURSIVE ScaleUp(_, _)
ScaleUp(a, k) == IF ~Less(Drop8(a), TwoTo52) THEN [a |-> a, k |-> k]
                 ELSE ScaleUp(Twice(a), k + 1)

\* n / 1e8 for an integer n below 2^53, correctly rounded
Div1e8(n) ==
    IF n = <<>> THEN FloatZero
    ELSE LET s == ScaleUp(n, 0)
             q == Drop8(s.a)
             r == Low8(s.a)
             up == 2 * r > 100000000 \/ (2 * r = 100000000 /\ Odd(q))
         IN  Normal(IF up THEN Succ(q) ELSE q, s.k)

RECURSIVE ShiftDown(_, _, _, _)
ShiftDown(a, k, guard, sticky) ==
    IF Less(a, TwoTo53) THEN [a |-> a, k |-> k, guard |-> guard, sticky |-> sticky]
    ELSE ShiftDown(Half(a), k - 1, Odd(a), sticky \/ guard)

\* f * 1e8, correctly rounded
Mul1e8(f) ==
    IF f.m = <<>> THEN FloatZero
    ELSE LET s == ShiftDown(<<0, 0>> \o f.m, f.k, FALSE, FALSE)
             up == s.guard /\ (s.sticky \/ Odd(s.a))
         IN  Normal(IF up THEN Succ(s.a) ELSE s.a, s.k)

\* int(f): truncation
RECURSIVE Floor(_, _)
Floor(a, k) == IF k = 0 \/ a = <<>> THEN a
               ELSE IF k > 0 THEN Floor(Half(a), k - 1)
               ELSE Floor(Twice(a), k + 1)
IntOf(f) == Floor(f.m, f.k)

\* the float a decimal with eight fractional digits parses to
FloatOfDecimal(units, frac) == Div1e8(Trim(<<frac % 10000, frac \div 10000, units>>))

\* blockchain.py 257-263: cadence.UFix64(int(x * 1e8))
decimal_to_ufix64(x) == IntOf(Mul1e8(x))

\* blockchain.py 535-540: None is 0.0, otherwise float(value) / 1e8
ufix64_to_float(value) == IF value = None THEN FloatZero ELSE Div1e8(value.int)

(* ---- the result dicts of create_proposal_on_blockchain ---- *)
NotConnectedResult == [success |-> FALSE, error |-> <<"Not connected to Flow blockchain">>]
NotConfiguredResult == [success |-> FALSE, error |-> <<"Flow account not configured">>]
InsufficientBalanceResult(balance) ==
    [success |-> FALSE, error |-> <<"Insufficient balance: ", balance, " FLOW">>]
ExceptionResult(where) == [success |-> FALSE, error |-> <<"exception", where>>]
\* a transaction sealed with an error reported as a success
SealFailedResult_asSuccess(tx_id, msg) ==
    [success |-> TRUE, transaction_hash |-> tx_id, error |-> <<"Transaction failed: ", msg>>]
\* the seal failure reported without the hash
SealFailedResult_noHash(tx_id, msg) ==
    [success |-> FALSE, error |-> <<"Transaction failed: ", msg>>]
SealFailedResult(tx_id, msg) ==
    [ success |-> FALSE, error |-> <<"Transaction failed: ", msg>>,
      transaction_hash |-> tx_id ]
SucceededResult(tx_id, proposal_id, status_code) ==
    [ success |-> TRUE, transaction_hash |-> tx_id, proposal_id |-> proposal_id,
      status_code |-> status_code, explorer_url |-> ExplorerUrl(tx_id) ]
\* the timeout reported without the explorer reference
TimedOutResult_noUrl(tx_id) ==
    [ success |-> FALSE, error |-> <<"Transaction timeout - please check explorer">>,
      transaction_hash |-> tx_id ]
TimedOutResult(tx_id) ==
    [ success |-> FALSE, error |-> <<"Transaction timeout - please check explorer">>,
      transaction_hash |-> tx_id, explorer_url |-> ExplorerUrl(tx_id) ]

(* ------------------------------------------------------------------ Init *)
Init ==
    /\ now = T0
    /\ config \in Configs
    /\ ledger \in [ sequence_number : {7}, balance : Balances, txs : {<<>>},
                    total_proposals : {3},
                    proposals : {[i \in 1..3 |-> [endDate |-> T0 - 86400, status |-> "closed"]]} ]
    /\ pc = [c \in Callers |-> "idle"]
    /\ draft = [c \in Callers |-> [endDate |-> Unparseable, parkNameLen |-> 0]]
    /\ locals = [c \in Callers |-> NoLocals]
    /\ result = [c \in Callers |-> NoResult]
    /\ calls = [c \in Callers |-> NoCalls]
    /\ sweeper = NoSweeper
    /\ query = NoQuery
    /\ agent = NoAgent

(* --------------------------------------------------------------- helpers *)
Goto(c, label) == pc' = [pc EXCEPT ![c] = label]
Return(c, r) == /\ pc' = [pc EXCEPT ![c] = "done"]
                /\ result' = [result EXCEPT ![c] = r]
Called(c, what) == calls' = [calls EXCEPT ![c][what] = @ + 1]
signer == config.private_key

(* ------------------------------- create_proposal_on_blockchain, by step *)

\* the caller hands over proposal_data
Start(c) ==
    /\ pc[c] = "idle"
    /\ \E e \in EndDates, n \in ParkNameLens :
          draft' = [draft EXCEPT ![c] = [endDate |-> e, parkNameLen |-> n]]
    /\ Goto(c, "ping")
    /\ UNCHANGED <<now, config, ledger, locals, result, calls>>

\* the ping's outcome ignored
CheckConnectivity_ignored(c) ==
    /\ pc[c] = "ping"
    /\ Called(c, "ping")
    /\ \E ok \in BOOLEAN : locals' = [locals EXCEPT ![c].connected = ok]
    /\ Goto(c, "config")
    /\ UNCHANGED <<now, config, ledger, draft, result>>

\* is_connected(): ping, any exception means not connected
CheckConnectivity(c) ==
    /\ pc[c] = "ping"
    /\ Called(c, "ping")
    /\ \E ok \in BOOLEAN :
          /\ locals' = [locals EXCEPT ![c].connected = ok]
          /\ IF ~ok
             THEN Return(c, NotConnectedResult)
             ELSE Goto(c, "config") /\ UNCHANGED result
    /\ UNCHANGED <<now, config, ledger, draft>>

CheckConfiguration(c) ==
    /\ pc[c] = "config"
    /\ IF config.address = "" \/ ~signer
       THEN Return(c, NotConfiguredResult)
       ELSE Goto(c, "normalize") /\ UNCHANGED result
    /\ UNCHANGED <<now, config, ledger, draft, locals, calls>>

normalize_end_date(c) ==
    /\ pc[c] = "normalize"
    /\ locals' = [locals EXCEPT ![c].end_timestamp =
                     NormalizeEndDate(ParseEndDate(draft[c].endDate, now), now)]
    /\ Goto(c, "summary")
    /\ UNCHANGED <<now, config, ledger, draft, result, calls>>

\* a summarizer failure let through to the caller
GenerateSummary_raises(c) ==
    /\ pc[c] = "summary"
    /\ Called(c, "summarizer")
    /\ \E out \in SummarizerOutputsOf(c) :
          IF out = SummarizerFails
          THEN Return(c, ExceptionResult("summarizer")) /\ UNCHANGED locals
          ELSE /\ locals' = [locals EXCEPT ![c].description =
                       [kind |-> "summary", len |-> ConstrainSummary(out)]]
               /\ Goto(c, "account")
               /\ UNCHANGED result
    /\ \E d \in DelaysOf(c) : now' = now + d
    /\ UNCHANGED <<config, ledger, draft>>

\* _generate_blockchain_summary: the summarizer replies or raises; it takes time
GenerateSummary(c) ==
    /\ pc[c] = "summary"
    /\ Called(c, "summarizer")
    /\ \E out \in SummarizerOutputsOf(c) :
          locals' = [locals EXCEPT ![c].description =
              IF out = SummarizerFails
              THEN [kind |-> "fallback", len |-> FallbackSummary(draft[c].parkNameLen)]
              ELSE [kind |-> "summary", len |-> ConstrainSummary(out)]]
    /\ \E d \in DelaysOf(c) : now' = now + d
    /\ Goto(c, "account")
    /\ UNCHANGED <<config, ledger, draft, result>>

\* get_account_at_latest_block, then the balance check
CheckBalance(c) ==
    /\ pc[c] = "account"
    /\ Called(c, "get_account")
    /\ \E d \in DelaysOf(c) : now' = now + d
    /\ \/ /\ Return(c, ExceptionResult("get_account"))
          /\ UNCHANGED locals
       \/ /\ locals' = [locals EXCEPT ![c].account =
                 [sequence_number |-> ledger.sequence_number, balance |-> ledger.balance]]
          /\ IF InsufficientBalance(ledger.balance)
             THEN Return(c, InsufficientBalanceResult(ledger.balance))
             ELSE Goto(c, "build") /\ UNCHANGED result
    /\ UNCHANGED <<config, ledger, draft>>

\* get_latest_block, ProposalKey, Tx, add_authorizers, add_arguments, sign
BuildAndSign(c) ==
    /\ pc[c] = "build"
    /\ Called(c, "get_latest_block")
    /\ \/ /\ Return(c, ExceptionResult("get_latest_block"))
          /\ UNCHANGED locals
       \/ /\ locals' = [locals EXCEPT ![c].tx =
                 [ kind |-> "create", by |-> c,
                   key_sequence_number |-> locals[c].account.sequence_number,
                   endDate |-> locals[c].end_timestamp,
                   description |-> locals[c].description ]]
          /\ Goto(c, "send")
          /\ UNCHANGED result
    /\ UNCHANGED <<now, config, ledger, draft>>

\* a failed send answered by building and sending again
Submit_retries(c) ==
    /\ pc[c] = "send"
    /\ Called(c, "send_transaction")
    /\ \/ /\ Goto(c, "build")
          /\ UNCHANGED <<ledger, locals, result>>
       \/ /\ ledger' = [ledger EXCEPT !.txs = Append(@,
                 [tx |-> locals[c].tx, status |-> TxStatus.PENDING, error_message |-> ""])]
          /\ locals' = [locals EXCEPT ![c].tx_id = Len(ledger.txs) + 1,
                                      ![c].sentAt = now,
                                      ![c].attempt = 0]
          /\ Goto(c, "loop")
          /\ UNCHANGED result
    /\ UNCHANGED <<now, config, draft>>

\* a service-wide lock held from the send to the end of the sealing poll
Submit_underLock(c) ==
    /\ pc[c] = "send"
    /\ \A o \in Callers \ {c} : pc[o] \notin {"loop", "poll", "total"}
    /\ Called(c, "send_transaction")
    /\ \/ /\ Return(c, ExceptionResult("send_transaction"))
          /\ UNCHANGED <<ledger, locals>>
       \/ /\ ledger' = [ledger EXCEPT !.txs = Append(@,
                 [tx |-> locals[c].tx, status |-> TxStatus.PENDING, error_message |-> ""])]
          /\ locals' = [locals EXCEPT ![c].tx_id = Len(ledger.txs) + 1,
                                      ![c].sentAt = now,
                                      ![c].attempt = 0]
          /\ Goto(c, "loop")
          /\ UNCHANGED result
    /\ UNCHANGED <<now, config, draft>>

\* send_transaction: the node takes the transaction, or the call raises
Submit(c) ==
    /\ pc[c] = "send"
    /\ Called(c, "send_transaction")
    /\ \/ /\ Return(c, ExceptionResult("send_transaction"))
          /\ UNCHANGED <<ledger, locals>>
       \/ /\ ledger' = [ledger EXCEPT !.txs = Append(@,
                 [tx |-> locals[c].tx, status |-> TxStatus.PENDING, error_message |-> ""])]
          /\ locals' = [locals EXCEPT ![c].tx_id = Len(ledger.txs) + 1,
                                      ![c].sentAt = now,
                                      ![c].attempt = 0]
          /\ Goto(c, "loop")
          /\ UNCHANGED result
    /\ UNCHANGED <<now, config, draft>>

\* while attempt < max_attempts: await asyncio.sleep(2)
Sleep(c) ==
    /\ pc[c] = "loop"
    /\ LoopContinues(locals[c].attempt)
    /\ Called(c, "sleep")
    /\ locals' = [locals EXCEPT ![c].wakeAt = now + SleepSeconds]
    /\ Goto(c, "poll")
    /\ UNCHANGED <<now, config, ledger, draft, result>>

\* the loop ran out: the timeout dict
Timeout(c) ==
    /\ pc[c] = "loop"
    /\ ~LoopContinues(locals[c].attempt)
    /\ Return(c, TimedOutResult(locals[c].tx_id))
    /\ UNCHANGED <<now, config, ledger, draft, locals, calls>>

\* get_transaction_result and the test of its status
Poll(c) ==
    /\ pc[c] = "poll"
    /\ now >= locals[c].wakeAt
    /\ Called(c, "get_transaction_result")
    /\ \/ /\ Return(c, ExceptionResult("get_transaction_result"))
          /\ UNCHANGED locals
       \/ LET t == ledger.txs[locals[c].tx_id]
              resp == [ status |-> t.status, status_code |-> StatusCode(t.error_message),
                        error_message |-> t.error_message ]
          IN  IF TreatedAsSealed(resp.status)
              THEN /\ locals' = [locals EXCEPT ![c].tx_result_response = resp]
                   /\ IF resp.error_message # ""
                      THEN Return(c, SealFailedResult(locals[c].tx_id, resp.error_message))
                      ELSE Goto(c, "total") /\ UNCHANGED result
              ELSE /\ locals' = [locals EXCEPT ![c].tx_result_response = resp,
                                               ![c].attempt = @ + 1]
                   /\ Goto(c, "loop")
                   /\ UNCHANGED result
    /\ UNCHANGED <<now, config, ledger, draft>>

\* get_total_proposals: the counter, or 0 when the script fails
GetTotal(c) ==
    /\ pc[c] = "total"
    /\ Called(c, "get_total_proposals")
    /\ \E proposal_id \in {0, ledger.total_proposals} :
          Return(c, SucceededResult(locals[c].tx_id, proposal_id,
                                    locals[c].tx_result_response.status_code))
    /\ UNCHANGED <<now, config, ledger, draft, locals>>

\* the steps of a call that has begun
Running(c) ==
    \/ CheckConnectivity(c) /\ UNCHANGED <<sweeper, query, agent>>
    \/ CheckConfiguration(c) /\ UNCHANGED <<sweeper, query, agent>>
    \/ normalize_end_date(c) /\ UNCHANGED <<sweeper, query, agent>>
    \/ GenerateSummary(c) /\ UNCHANGED <<sweeper, query, agent>>
    \/ CheckBalance(c) /\ UNCHANGED <<sweeper, query, agent>>
    \/ BuildAndSign(c) /\ UNCHANGED <<sweeper, query, agent>>
    \/ Submit(c) /\ UNCHANGED <<sweeper, query, agent>>
    \/ Sleep(c) /\ UNCHANGED <<sweeper, query, agent>>
    \/ Timeout(c) /\ UNCHANGED <<sweeper, query, agent>>
    \/ Poll(c) /\ UNCHANGED <<sweeper, query, agent>>
    \/ GetTotal(c) /\ UNCHANGED <<sweeper, query, agent>>

create_proposal_on_blockchain(c) ==
    \/ Start(c) /\ UNCHANGED <<sweeper, query, agent>>
    \/ Running(c)

(* ------------------------------------------------------------ the ledger *)

SetTx(i, status, msg) ==
    ledger' = [ledger EXCEPT !.txs[i].status = status, !.txs[i].error_message = msg]

\* the contract's createProposal appends a proposal and counts it; the Admin's
\* updateProposalStatus closes an active proposal; a reverted transaction
\* (msg # "") leaves the contract's state alone
CountAfter(tx, msg, count) ==
    IF msg = "" /\ tx.kind = "create" THEN count + 1 ELSE count

ProposalsAfter(tx, msg, proposals) ==
    IF msg # "" THEN proposals
    ELSE IF tx.kind = "create"
         THEN Append(proposals, [endDate |-> tx.endDate, status |-> "active"])
         ELSE [proposals EXCEPT ![tx.proposal_id].status = "closed"]

\* a pending transaction is finalized
LedgerFinalize(i) ==
    /\ ledger.txs[i].status = TxStatus.PENDING
    /\ SetTx(i, TxStatus.FINALIZED, "")
    /\ UNCHANGED <<now, config, pc, draft, locals, result, calls, sweeper, query, agent>>

\* a finalized transaction is executed: a stale sequence number fails it, the
\* contract may revert it, otherwise its effects are committed
LedgerExecute(i) ==
    /\ ledger.txs[i].status = TxStatus.FINALIZED
    /\ IF ledger.txs[i].tx.key_sequence_number # ledger.sequence_number
       THEN SetTx(i, TxStatus.EXECUTED, "invalid proposal key sequence number")
       ELSE \E msg \in LedgerErrors :
               ledger' = [ledger EXCEPT
                   !.txs[i].status = TxStatus.EXECUTED,
                   !.txs[i].error_message = msg,
                   !.sequence_number = @ + 1,
                   !.total_proposals = CountAfter(ledger.txs[i].tx, msg, @),
                   !.proposals = ProposalsAfter(ledger.txs[i].tx, msg, @)]
    /\ UNCHANGED <<now, config, pc, draft, locals, result, calls, sweeper, query, agent>>

LedgerSeal(i) ==
    /\ ledger.txs[i].status = TxStatus.EXECUTED
    /\ SetTx(i, TxStatus.SEALED, ledger.txs[i].error_message)
    /\ UNCHANGED <<now, config, pc, draft, locals, result, calls, sweeper, query, agent>>

\* a pending transaction whose reference block grew too old expires
LedgerExpire(i) ==
    /\ ledger.txs[i].status = TxStatus.PENDING
    /\ SetTx(i, TxStatus.EXPIRED, "")
    /\ UNCHANGED <<now, config, pc, draft, locals, result, calls, sweeper, query, agent>>

LedgerStep ==
    \E i \in 1..Len(ledger.txs) :
        \/ LedgerFinalize(i)
        \/ LedgerExecute(i)
        \/ LedgerSeal(i)
        \/ LedgerExpire(i)

\* time passes while every running call sleeps, up to the first wake-up: the
\* event loop resumes a sleeper when its two seconds are over
TimePasses ==
    /\ \A c \in Callers : pc[c] \in {"idle", "done"} \/ (pc[c] = "poll" /\ locals[c].wakeAt > now)
    /\ \E c \in Callers : /\ pc[c] = "poll"
                          /\ \A o \in Callers : pc[o] = "poll" => locals[c].wakeAt <= locals[o].wakeAt
                          /\ now' = locals[c].wakeAt
    /\ UNCHANGED <<config, ledger, pc, draft, locals, result, calls, sweeper, query, agent>>

(* --------------------------------------------------------- specification *)
\* one createProposal call against the ledger
Next ==
    \/ create_proposal_on_blockchain("c1")
    \/ LedgerStep
    \/ TimePasses

Spec == Init /\ [][Next]_vars

\* two createProposal calls issued from the same configured, funded account:
\* both requests have arrived (main.py 228-244 runs one coroutine per request)
InitConcurrent ==
    /\ now = T0
    /\ config = [address |-> "f8d6e0586b0a20c7", contract_address |-> "f8d6e0586b0a20c7",
                 private_key |-> TRUE]
    /\ ledger = [ sequence_number |-> 7, balance |-> MinBalanceUnits, txs |-> <<>>,
                  total_proposals |-> 0, proposals |-> <<>> ]
    /\ pc = [c \in Callers |-> IF c \in ConcurrentCallers THEN "ping" ELSE "idle"]
    /\ draft = [c \in Callers |-> IF c \in ConcurrentCallers THEN ConcurrentDraft
                                   ELSE [endDate |-> Unparseable, parkNameLen |-> 0]]
    /\ locals = [c \in Callers |-> NoLocals]
    /\ result = [c \in Callers |-> NoResult]
    /\ calls = [c \in Callers |-> NoCalls]
    /\ sweeper = NoSweeper
    /\ query = NoQuery
    /\ agent = NoAgent

\* the calls run as coroutines of one event loop: any await may switch
NextConcurrent ==
    \/ \E c \in ConcurrentCallers : Running(c)
    \/ LedgerStep
    \/ TimePasses

SpecConcurrent == InitConcurrent /\ [][NextConcurrent]_vars

(* ------------------------------ agent.py: the create-proposal handler *)

\* what the email notifier may do: send, return False, raise, fail to import
NotifierOutcomes == {"sent", "not sent", "raised", "import error"}

\* agent.py 407-412: the blockchain is not reachable
LocalOnlyReply ==
    [ action |-> "proposal_created", reply |-> <<"Blockchain submission disabled">> ]
\* agent.py 463-475
FailureReply(blockchain_result) ==
    [ action |-> "proposal_created",
      reply |-> <<"Blockchain submission failed:", blockchain_result.error>>,
      blockchain |-> [error |-> blockchain_result.error] ]
\* agent.py 486-493: any exception inside the handler's try block
HandlerExceptionReply ==
    [ action |-> "proposal_created", reply |-> <<"Blockchain submission failed">> ]
\* agent.py 443-459
SuccessReply(blockchain_result) ==
    [ action |-> "proposal_created",
      reply |-> <<"Successfully submitted to Flow testnet blockchain!",
                  IF "proposal_id" \in DOMAIN blockchain_result
                  THEN blockchain_result.proposal_id ELSE "Pending",
                  blockchain_result.transaction_hash, blockchain_result.explorer_url>>,
      blockchain |-> blockchain_result ]

\* the submission reported by what the notifier did
AgentReplyFor_emailRequired(blockchain_result, email) ==
    IF email = "sent" /\ {"transaction_hash", "explorer_url"} \subseteq DOMAIN blockchain_result
    THEN SuccessReply(blockchain_result)
    ELSE HandlerExceptionReply

\* agent.py 443-459: the reply after the notification, whatever became of it
AgentReplyFor(blockchain_result, email) ==
    IF {"transaction_hash", "explorer_url"} \subseteq DOMAIN blockchain_result
    THEN SuccessReply(blockchain_result)
    ELSE HandlerExceptionReply

\* agent.py 405-413: is_connected() before anything is submitted
AgentCheckConnected ==
    /\ agent.pc = "idle"
    /\ \E ok \in BOOLEAN :
          agent' = IF ok THEN [agent EXCEPT !.pc = "call"]
                   ELSE [agent EXCEPT !.pc = "replied", !.reply = LocalOnlyReply]
    /\ UNCHANGED <<now, config, ledger, pc, draft, locals, result, calls, sweeper, query>>

\* agent.py 415: await create_proposal_on_blockchain(proposal_data)
AgentSubmission ==
    /\ agent.pc = "call"
    /\ create_proposal_on_blockchain("c1")

\* agent.py 417-440: the email notification, inside its own try block
AgentNotify ==
    /\ agent.pc = "call" /\ pc["c1"] = "done"
    /\ result["c1"].success
    /\ \E email \in NotifierOutcomes :
          agent' = [agent EXCEPT !.pc = "reply",
                                 !.notifier = email,
                                 !.notified = IF email = "import error" THEN @ ELSE @ + 1]
    /\ UNCHANGED <<now, config, ledger, pc, draft, locals, result, calls, sweeper, query>>

\* agent.py 442-461
AgentReplySuccess ==
    /\ agent.pc = "reply"
    /\ agent' = [agent EXCEPT !.pc = "replied",
                              !.reply = AgentReplyFor(result["c1"], agent.notifier)]
    /\ UNCHANGED <<now, config, ledger, pc, draft, locals, result, calls, sweeper, query>>

\* agent.py 462-476
AgentReplyFailure ==
    /\ agent.pc = "call" /\ pc["c1"] = "done"
    /\ ~result["c1"].success
    /\ agent' = [agent EXCEPT !.pc = "replied", !.reply = FailureReply(result["c1"])]
    /\ UNCHANGED <<now, config, ledger, pc, draft, locals, result, calls, sweeper, query>>

handle_create_proposal_intent ==
    \/ AgentCheckConnected
    \/ AgentSubmission
    \/ AgentNotify
    \/ AgentReplySuccess
    \/ AgentReplyFailure

NextAgent ==
    \/ handle_create_proposal_intent
    \/ LedgerStep
    \/ TimePasses

SpecAgent == Init /\ [][NextAgent]_vars

(* ------------------------------------------- the agent's session storage *)

\* the session ids of the requests, and what the UI has selected ("" = nothing)
Sessions == {"s1", "s2"}
SelectedParks == {"", "P-17"}
\* removal analyses run in one behaviour
MaxAnalyses == 2

\* analyze_park_removal_impact: the impact dict of the n-th analysis run
Impact(selected_park_id, n) == [parkId |-> selected_park_id, run |-> n]

\* agent.py 315-319
NeedAnalysisReply(session_id) ==
    [ sessionId |-> session_id, action |-> "need_analysis" ]

\* agent.py 314: session_id not in storage or no "latest_removal_analysis" in it
NoStoredAnalysis(storage, session_id) ==
    \/ session_id \notin DOMAIN storage
    \/ "latest_removal_analysis" \notin DOMAIN storage[session_id]

\* agent.py 203-211: storage[session_id]["latest_removal_analysis"] = {...}
StoreAnalysis(storage, session_id, selected_park_id, impact) ==
    LET entry == [ latest_removal_analysis |->
                      [park_id |-> selected_park_id, analysis_data |-> impact] ]
    IN  [s \in DOMAIN storage \cup {session_id} |->
            IF s = session_id THEN entry ELSE storage[s]]

\* agent.py 189-218: the park-removal-impact request of some session; nothing
\* is stored when no park is selected or when the analysis raises.  The
\* requests followed are those that arrive before the submission's first step
handle_park_removal_impact_intent ==
    /\ agent.analyses < MaxAnalyses
    /\ pc["c2"] = "ping"
    /\ \E session_id \in Sessions, selected_park_id \in SelectedParks, raises \in BOOLEAN :
          LET n == agent.analyses + 1
              impact == Impact(selected_park_id, n)
          IN  agent' =
                 IF selected_park_id = "" \/ raises
                 THEN [agent EXCEPT !.analyses = n]
                 ELSE [agent EXCEPT
                          !.analyses = n,
                          !.storage = StoreAnalysis(@, session_id, selected_park_id, impact),
                          !.stored = Append(@, [session_id |-> session_id,
                                                analysis_data |-> impact])]
    /\ UNCHANGED <<now, config, ledger, pc, draft, locals, result, calls, sweeper, query>>

\* the stored analysis looked up in whatever session holds one
CheckRemovalAnalysis_anySession ==
    /\ agent.pc = "request"
    /\ \E session_id \in Sessions, selected_park_id \in SelectedParks :
          agent' =
             IF DOMAIN agent.storage = {}
             THEN [agent EXCEPT !.pc = "replied", !.session_id = session_id,
                                !.read_at = Len(agent.stored),
                                !.reply = NeedAnalysisReply(session_id)]
             ELSE LET held == CHOOSE s \in DOMAIN agent.storage : TRUE
                      removal_analysis == agent.storage[held].latest_removal_analysis
                  IN  [agent EXCEPT
                         !.pc = "idle", !.session_id = session_id,
                         !.read_at = Len(agent.stored),
                         !.proposal_data = [ parkId |-> selected_park_id,
                                             analysisData |-> removal_analysis.analysis_data ]]
    /\ UNCHANGED <<now, config, ledger, pc, draft, locals, result, calls, sweeper, query>>

\* agent.py 309-399: the create-proposal request of a session: need_analysis
\* when the session holds no analysis, else the proposal data built from the
\* stored one (its end date and summary are the draft of the call)
CheckRemovalAnalysis ==
    /\ agent.pc = "request"
    /\ \E session_id \in Sessions, selected_park_id \in SelectedParks :
          agent' =
             IF NoStoredAnalysis(agent.storage, session_id)
             THEN [agent EXCEPT !.pc = "replied", !.session_id = session_id,
                                !.read_at = Len(agent.stored),
                                !.reply = NeedAnalysisReply(session_id)]
             ELSE LET removal_analysis == agent.storage[session_id].latest_removal_analysis
                  IN  [agent EXCEPT
                         !.pc = "idle", !.session_id = session_id,
                         !.read_at = Len(agent.stored),
                         !.proposal_data = [ parkId |-> selected_park_id,
                                             analysisData |-> removal_analysis.analysis_data ]]
    /\ UNCHANGED <<now, config, ledger, pc, draft, locals, result, calls, sweeper, query>>

\* agent.py 415: await create_proposal_on_blockchain(proposal_data)
SessionSubmission ==
    /\ agent.pc = "call"
    /\ Running("c2")

\* agent.py 417-476: the notification after a success, then the reply
SessionReply ==
    /\ agent.pc = "call" /\ pc["c2"] = "done"
    /\ \E email \in NotifierOutcomes :
          agent' = IF result["c2"].success
                   THEN [agent EXCEPT !.pc = "replied", !.notifier = email,
                            !.notified = IF email = "import error" THEN @ ELSE @ + 1,
                            !.reply = AgentReplyFor(result["c2"], email)]
                   ELSE [agent EXCEPT !.pc = "replied", !.reply = FailureReply(result["c2"])]
    /\ UNCHANGED <<now, config, ledger, pc, draft, locals, result, calls, sweeper, query>>

\* a configured service with funds, and a create-proposal request to come
InitSession ==
    /\ now = T0
    /\ config = [address |-> "f8d6e0586b0a20c7", contract_address |-> "f8d6e0586b0a20c7",
                 private_key |-> TRUE]
    /\ ledger = [ sequence_number |-> 7, balance |-> MinBalanceUnits, txs |-> <<>>,
                  total_proposals |-> 0, proposals |-> <<>> ]
    /\ pc = [c \in Callers |-> IF c = "c2" THEN "ping" ELSE "idle"]
    /\ draft = [c \in Callers |-> IF c = "c2" THEN ConcurrentDraft
                                   ELSE [endDate |-> Unparseable, parkNameLen |-> 0]]
    /\ locals = [c \in Callers |-> NoLocals]
    /\ result = [c \in Callers |-> NoResult]
    /\ calls = [c \in Callers |-> NoCalls]
    /\ sweeper = NoSweeper
    /\ query = NoQuery
    /\ agent = [NoAgent EXCEPT !.pc = "request"]

\* the requests of the sessions, served by one event loop
NextSession ==
    \/ handle_park_removal_impact_intent
    \/ CheckRemovalAnalysis
    \/ AgentCheckConnected
    \/ SessionSubmission
    \/ SessionReply
    \/ LedgerStep
    \/ TimePasses

SpecSession == InitSession /\ [][NextSession]_vars

(* ----------------------------------- a caller that submits a draft again *)

\* the replies that leave the caller not knowing whether a proposal exists
Inconclusive(r) ==
    /\ "error" \in DOMAIN r
    /\ r.error = <<"Transaction timeout - please check explorer">>

\* the request is made again with the same proposal_data: a new
\* create_proposal_on_blockchain call, which reads the account afresh
CallerRetries(c) ==
    /\ pc[c] = "done"
    /\ Inconclusive(result[c])
    /\ agent.retries < MaxCallerRetries
    /\ agent' = [agent EXCEPT !.retries = @ + 1, !.reply = result[c]]
    /\ pc' = [pc EXCEPT ![c] = "ping"]
    /\ locals' = [locals EXCEPT ![c] = NoLocals]
    /\ result' = [result EXCEPT ![c] = NoResult]
    /\ calls' = [calls EXCEPT ![c] = NoCalls]
    /\ UNCHANGED <<now, config, ledger, draft, sweeper, query>>

\* one request from a configured, funded account, already handed over
InitRetry ==
    /\ now = T0
    /\ config = [address |-> "f8d6e0586b0a20c7", contract_address |-> "f8d6e0586b0a20c7",
                 private_key |-> TRUE]
    /\ ledger = [ sequence_number |-> 7, balance |-> MinBalanceUnits, txs |-> <<>>,
                  total_proposals |-> 0, proposals |-> <<>> ]
    /\ pc = [c \in Callers |-> IF c = "c2" THEN "ping" ELSE "idle"]
    /\ draft = [c \in Callers |-> IF c = "c2" THEN ConcurrentDraft
                                   ELSE [endDate |-> Unparseable, parkNameLen |-> 0]]
    /\ locals = [c \in Callers |-> NoLocals]
    /\ result = [c \in Callers |-> NoResult]
    /\ calls = [c \in Callers |-> NoCalls]
    /\ sweeper = NoSweeper
    /\ query = NoQuery
    /\ agent = NoAgent

NextRetry ==
    \/ Running("c2")
    \/ CallerRetries("c2")
    \/ LedgerStep
    \/ TimePasses

SpecRetry == InitRetry /\ [][NextRetry]_vars

(* ------------------------------------------- close_proposals.py, by step *)

\* the proposals a sweep may find on the ledger: end dates around the start
SweepEndDates == {T0 - 10, T0, T0 + 10}
\* the sweep scenario: A ended, B still open, C as open as B
ScenarioLedger ==
    [ sequence_number |-> 7, balance |-> MinBalanceUnits, txs |-> <<>>, total_proposals |-> 3,
      proposals |-> << [endDate |-> T0 - 10, status |-> "active"],
                       [endDate |-> T0 + 10, status |-> "active"],
                       [endDate |-> T0 + 10, status |-> "active"] >> ]
SweepLedgers ==
    UNION { [ sequence_number : {7}, balance : {MinBalanceUnits}, txs : {<<>>},
              total_proposals : {n},
              proposals : [1..n -> [endDate : SweepEndDates, status : {"active"}]] ]
            : n \in 0..MaxProposals }
    \cup {ScenarioLedger}

InitSweep ==
    /\ now = T0
    /\ config \in Configs
    /\ ledger \in SweepLedgers
    /\ pc = [c \in Callers |-> "idle"]
    /\ draft = [c \in Callers |-> [endDate |-> Unparseable, parkNameLen |-> 0]]
    /\ locals = [c \in Callers |-> NoLocals]
    /\ result = [c \in Callers |-> NoResult]
    /\ calls = [c \in Callers |-> NoCalls]
    /\ sweeper = NoSweeper
    /\ query = NoQuery
    /\ agent = NoAgent

RECURSIVE ActiveIds(_, _)
\* CommunityVoting.getAllActiveProposals(): the active ids from i on, in id order
ActiveIds(proposals, i) ==
    IF i > Len(proposals) THEN <<>>
    ELSE IF proposals[i].status = "active"
         THEN <<i>> \o ActiveIds(proposals, i + 1)
         ELSE ActiveIds(proposals, i + 1)

\* a proposal closed at the very second its voting ends
Expired_inclusive(current_time, end_date) == current_time >= end_date

\* close_proposals.py 250: if current_time > end_date
Expired(current_time, end_date) == current_time > end_date

\* close_proposals.py 269-275: the SUMMARY lines
Summary(sw) ==
    [ total |-> Len(sw.active_proposals), closed |-> sw.closed_count,
      skipped |-> sw.skipped_count, failed |-> sw.failed_count ]

\* the for loop moves to the next id, or the sweep prints its summary; the
\* locals of a close_proposal call end with the call
NextId(sw) ==
    LET back == [sw EXCEPT !.account = NoAccount, !.tx = NoTx, !.tx_id = 0,
                           !.attempt = 0, !.tx_result_response = NoResponse]
    IN  IF sw.idx < Len(sw.active_proposals)
        THEN [back EXCEPT !.idx = @ + 1, !.pc = "details"]
        ELSE [back EXCEPT !.pc = "finished", !.log = Summary(sw)]

\* what the loop body made of the id it is at, at which of its stages (the
\* details, lines 232-248 and 261-266; the end date, 250 and 258-260; the
\* close, 251-257), and how a close_proposal call ended: whether it sent its
\* transaction, whether it used up its polls, the final status it was given
Outcome(sw, what, stage) ==
    Append(sw.outcome,
           [ id |-> sw.active_proposals[sw.idx], counted |-> what, at |-> stage,
             sent |-> sw.tx_id # 0,
             exhausted |-> sw.attempt >= max_attempts,
             seen |-> IF sw.tx_result_response.status >= TxStatus.SEALED
                      THEN sw.tx_result_response ELSE NoResponse ])

\* the first failure ends the sweep
Failed_aborts(sw, stage) ==
    [sw EXCEPT !.failed_count = @ + 1, !.outcome = Outcome(sw, "failed", stage),
               !.pc = "finished"]

\* a close that sealed without error counted with the skipped ones
Closed_countedSkipped(sw) ==
    NextId([sw EXCEPT !.skipped_count = @ + 1, !.outcome = Outcome(sw, "skipped", "close")])

Failed(sw, stage) ==
    NextId([sw EXCEPT !.failed_count = @ + 1, !.outcome = Outcome(sw, "failed", stage)])
\* a failed close let through as an exception that ends the script
CloseFailed_crashes(sw, why) == [sw EXCEPT !.close_error = why, !.pc = "raised"]

\* close_proposal returned False after logging why
CloseFailed(sw, why) == Failed([sw EXCEPT !.close_error = why], "close")
\* an id whose voting is still open passed over without being counted
Skipped_uncounted(sw) ==
    NextId([sw EXCEPT !.outcome = Outcome(sw, "skipped", "end date")])
Skipped(sw) ==
    NextId([sw EXCEPT !.skipped_count = @ + 1, !.outcome = Outcome(sw, "skipped", "end date")])
\* ever_closed: the ids counted as closed, over all the runs of the script
Closed(sw) ==
    NextId([sw EXCEPT !.closed_count = @ + 1, !.outcome = Outcome(sw, "closed", "close"),
                      !.ever_closed = Append(@, sw.active_proposals[sw.idx])])

\* ProposalCloser.__init__: the signer is built from FLOW_PRIVATE_KEY without a
\* check; InMemorySigner raises on a missing key and the script ends there
SweeperConstruct ==
    /\ sweeper.pc = "init"
    /\ sweeper' = [sweeper EXCEPT !.pc = IF config.private_key THEN "fetch_active" ELSE "raised"]
    /\ UNCHANGED <<now, config, ledger, pc, draft, locals, result, calls, query, agent>>

\* close_proposals.py 217: all that an empty list leaves in the log
NoActiveProposals == [message |-> "No active proposals found."]

\* get_all_active_proposals, then the empty-list return or the start of the loop
SweeperFetchActive ==
    /\ sweeper.pc = "fetch_active"
    /\ \E ids \in {<<>>} \cup (IF config.contract_address = "" THEN {}
                                ELSE {ActiveIds(ledger.proposals, 1)}) :
          sweeper' = IF ids = <<>>
                     THEN [sweeper EXCEPT !.pc = "finished", !.log = NoActiveProposals]
                     ELSE [sweeper EXCEPT !.active_proposals = ids, !.idx = 1,
                                          !.current_time = now, !.pc = "details"]
    /\ UNCHANGED <<now, config, ledger, pc, draft, locals, result, calls, query, agent>>

\* get_proposal_details and the end-date test of the loop body
SweeperCheckProposal ==
    /\ sweeper.pc = "details"
    /\ LET proposal_id == sweeper.active_proposals[sweeper.idx] IN
       \/ \E problem \in {"fetch failed", "no endDate field", "unexpected structure"} :
             sweeper' = Failed(sweeper, "details")
       \/ sweeper' = IF Expired(sweeper.current_time, ledger.proposals[proposal_id].endDate)
                     THEN [sweeper EXCEPT !.pc = "close_account"]
                     ELSE Skipped(sweeper)
    /\ UNCHANGED <<now, config, ledger, pc, draft, locals, result, calls, query, agent>>

\* close_proposal: Address.from_hex and get_account_at_latest_block; an empty
\* address names no account
CloseReadAccount ==
    /\ sweeper.pc = "close_account"
    /\ \/ sweeper' = CloseFailed(sweeper, "get_account raised")
       \/ /\ config.address # ""
          /\ sweeper' = [sweeper EXCEPT
                !.account = [sequence_number |-> ledger.sequence_number,
                             balance |-> ledger.balance],
                !.pc = "close_build"]
    /\ UNCHANGED <<now, config, ledger, pc, draft, locals, result, calls, query, agent>>

\* the sequence number of the attempt before carried over to this one
CloseBuildAndSign_carriesOver ==
    /\ sweeper.pc = "close_build"
    /\ \/ sweeper' = CloseFailed(sweeper, "get_latest_block raised")
       \/ sweeper' = [sweeper EXCEPT
             !.tx = [ kind |-> "close", by |-> "sweeper",
                      key_sequence_number |->
                          IF ledger.txs = <<>> THEN sweeper.account.sequence_number
                          ELSE ledger.txs[Len(ledger.txs)].tx.key_sequence_number,
                      proposal_id |-> sweeper.active_proposals[sweeper.idx] ],
             !.pc = "close_send"]
    /\ UNCHANGED <<now, config, ledger, pc, draft, locals, result, calls, query, agent>>

\* close_proposal: get_latest_block, ProposalKey, Tx, authorizer, argument, sign
CloseBuildAndSign ==
    /\ sweeper.pc = "close_build"
    /\ \/ sweeper' = CloseFailed(sweeper, "get_latest_block raised")
       \/ sweeper' = [sweeper EXCEPT
             !.tx = [ kind |-> "close", by |-> "sweeper",
                      key_sequence_number |-> sweeper.account.sequence_number,
                      proposal_id |-> sweeper.active_proposals[sweeper.idx] ],
             !.pc = "close_send"]
    /\ UNCHANGED <<now, config, ledger, pc, draft, locals, result, calls, query, agent>>

\* a close that is sent and left behind: the loop moves on without polling
CloseSubmit_noWait ==
    /\ sweeper.pc = "close_send"
    /\ \/ /\ sweeper' = CloseFailed(sweeper, "send_transaction raised")
          /\ UNCHANGED ledger
       \/ /\ ledger' = [ledger EXCEPT !.txs = Append(@,
                 [tx |-> sweeper.tx, status |-> TxStatus.PENDING, error_message |-> ""])]
          /\ sweeper' = NextId([sweeper EXCEPT !.sent = @ + 1])
    /\ UNCHANGED <<now, config, pc, draft, locals, result, calls, query, agent>>

\* close_proposal: send_transaction
CloseSubmit ==
    /\ sweeper.pc = "close_send"
    /\ \/ /\ sweeper' = CloseFailed(sweeper, "send_transaction raised")
          /\ UNCHANGED ledger
       \/ /\ ledger' = [ledger EXCEPT !.txs = Append(@,
                 [tx |-> sweeper.tx, status |-> TxStatus.PENDING, error_message |-> ""])]
          /\ sweeper' = [sweeper EXCEPT !.tx_id = Len(ledger.txs) + 1, !.attempt = 0,
                                        !.sent = @ + 1, !.pc = "close_loop"]
    /\ UNCHANGED <<now, config, pc, draft, locals, result, calls, query, agent>>

\* close_proposal: while attempt < max_attempts: await asyncio.sleep(2).  The
\* sweep read the clock once, before the loop (current_time), so the time its
\* sleeps take shows nowhere in its state
CloseSleep ==
    /\ sweeper.pc = "close_loop"
    /\ LoopContinues(sweeper.attempt)
    /\ sweeper' = [sweeper EXCEPT !.pc = "close_poll"]
    /\ UNCHANGED <<now, config, ledger, pc, draft, locals, result, calls, query, agent>>

\* close_proposal: the loop ran out, return False
CloseTimeout ==
    /\ sweeper.pc = "close_loop"
    /\ ~LoopContinues(sweeper.attempt)
    /\ sweeper' = CloseFailed(sweeper, "Transaction timeout")
    /\ UNCHANGED <<now, config, ledger, pc, draft, locals, result, calls, query, agent>>

\* close_proposal: get_transaction_result and the test of its status
ClosePoll ==
    /\ sweeper.pc = "close_poll"
    /\ \/ sweeper' = CloseFailed(sweeper, "get_transaction_result raised")
       \/ LET t == ledger.txs[sweeper.tx_id]
              resp == [ status |-> t.status, status_code |-> StatusCode(t.error_message),
                        error_message |-> t.error_message ]
              sw == [sweeper EXCEPT !.tx_result_response = resp]
          IN  sweeper' =
                 IF TreatedAsSealed(resp.status)
                 THEN IF resp.error_message # ""
                      THEN CloseFailed(sw, "Transaction failed")
                      ELSE Closed(sw)
                 ELSE [sw EXCEPT !.attempt = @ + 1, !.pc = "close_loop"]
    /\ UNCHANGED <<now, config, ledger, pc, draft, locals, result, calls, query, agent>>

close_all_active_proposals ==
    \/ SweeperConstruct
    \/ SweeperFetchActive
    \/ SweeperCheckProposal
    \/ CloseReadAccount
    \/ CloseBuildAndSign
    \/ CloseSubmit
    \/ CloseSleep
    \/ CloseTimeout
    \/ ClosePoll

\* one run of the closure script against the ledger
NextSweep ==
    \/ close_all_active_proposals
    \/ LedgerStep

SpecSweep == InitSweep /\ [][NextSweep]_vars

\* the external invoker runs the script again: a new process, a new
\* ProposalCloser, nothing kept from the run before, however that run ended
\* (txs_before: how many transactions the ledger held when this run began)
SweeperRunAgain ==
    /\ sweeper.pc \in {"finished", "raised"}
    /\ sweeper.run < MaxRuns
    /\ sweeper' = [NoSweeper EXCEPT !.run = sweeper.run + 1,
                                    !.ever_closed = sweeper.ever_closed,
                                    !.txs_before = Len(ledger.txs)]
    /\ UNCHANGED <<now, config, ledger, pc, draft, locals, result, calls, query, agent>>

\* the ledger of the repeated runs: one proposal whose voting ended, one open
RerunLedger ==
    [ sequence_number |-> 7, balance |-> MinBalanceUnits, txs |-> <<>>, total_proposals |-> 2,
      proposals |-> << [endDate |-> T0 - 10, status |-> "active"],
                       [endDate |-> T0 + 10, status |-> "active"] >> ]

InitSweeps ==
    /\ now = T0
    /\ config = [address |-> "f8d6e0586b0a20c7", contract_address |-> "f8d6e0586b0a20c7",
                 private_key |-> TRUE]
    /\ ledger = RerunLedger
    /\ pc = [c \in Callers |-> "idle"]
    /\ draft = [c \in Callers |-> [endDate |-> Unparseable, parkNameLen |-> 0]]
    /\ locals = [c \in Callers |-> NoLocals]
    /\ result = [c \in Callers |-> NoResult]
    /\ calls = [c \in Callers |-> NoCalls]
    /\ sweeper = NoSweeper
    /\ query = NoQuery
    /\ agent = NoAgent

\* the script run on a schedule, one run after the other
NextSweeps ==
    \/ close_all_active_proposals
    \/ SweeperRunAgain
    \/ LedgerStep

SpecSweeps == InitSweeps /\ [][NextSweeps]_vars

(* ------------------------------------------- the query service: decoding *)

\* Cadence values as the SDK's object hook builds them: a scalar has .value,
\* a composite has .id (its type identifier) and .fields, an optional has
\* .value (None when nil), an array has .value (a list)
UFix64(raw) == [value |-> PyInt(raw)]
UInt64(n) == [value |-> PyInt(n)]
String(t) == [value |-> PyStr(t)]
TypeTag == "A.0x01.CommunityVoting.Proposal"
Composite(type_id, fields) == [id |-> type_id, fields |-> fields]

EnvFields == { "ndviBefore", "ndviAfter", "pm25Before", "pm25After",
               "pm25IncreasePercent", "vegetationLossPercent" }
DemoFields == { "children", "adults", "seniors", "totalAffectedPopulation" }
TopFields == { "id", "parkName", "parkId", "description", "yesVotes", "noVotes",
               "endDate", "creator", "status", "environmentalData", "demographics" }
Restrict(f, S) == [n \in S |-> f[n]]

\* the raw UFix64 of a whole number below 10^8
WholeUFix64(units) == <<0, 0>> \o Trim(<<units % 10000, units \div 10000>>)

\* a fully populated proposal: 0.7, 0.2, 12.0, 21.0, 75.0, 50.0 and a population
FullEnv ==
    [ ndviBefore |-> UFix64(<<0, 7000>>), ndviAfter |-> UFix64(<<0, 2000>>),
      pm25Before |-> UFix64(WholeUFix64(12)), pm25After |-> UFix64(WholeUFix64(21)),
      pm25IncreasePercent |-> UFix64(WholeUFix64(75)),
      vegetationLossPercent |-> UFix64(WholeUFix64(50)) ]
FullDemo ==
    [ children |-> UInt64(100), adults |-> UInt64(400), seniors |-> UInt64(50),
      totalAffectedPopulation |-> UInt64(550) ]
FullFields(id_field, status_field, env, demo) ==
    [ id |-> id_field, parkName |-> String("Central Park"), parkId |-> String("P-17"),
      description |-> String("Remove two acres"), yesVotes |-> UInt64(5),
      noVotes |-> UInt64(3), endDate |-> UFix64(WholeUFix64(T0 + 10)),
      creator |-> String("0xf8d6e0586b0a20c7"), status |-> status_field,
      environmentalData |-> Composite("A.0x01.CommunityVoting.EnvironmentalData", env),
      demographics |-> Composite("A.0x01.CommunityVoting.Demographics", demo) ]

\* what the struct's id field may hold: the type identifier, or a number
IdFieldValues == { PyStr(TypeTag), UInt64(1), UInt64(9) }
\* what the status field may hold: a scalar, an enum whose rawValue is an
\* attribute, an enum whose rawValue is only an entry of .fields
EnumAttr(n) == [id |-> "A.0x01.CommunityVoting.ProposalStatus",
                fields |-> [rawValue |-> UInt64(n)], rawValue |-> UInt64(n)]
EnumBare(n) == Composite("A.0x01.CommunityVoting.ProposalStatus", [rawValue |-> UInt64(n)])
StatusFieldValues == { UInt64(n) : n \in 0..3 } \cup { EnumAttr(n) : n \in 0..3 } \cup { EnumBare(1) }

\* the structs a query may find: every id and status shape
QueryStructs ==
    { Composite(TypeTag, FullFields(i, st, FullEnv, FullDemo)) :
         i \in IdFieldValues, st \in StatusFieldValues }

\* the structs decoded: every subset of the top-level fields missing, every
\* subset of the two sub-structs' fields missing, every id and status shape
Structs ==
    { Composite(TypeTag, Restrict(FullFields(PyStr(TypeTag), UInt64(1), FullEnv, FullDemo),
                                  TopFields \ S)) : S \in SUBSET TopFields }
    \cup { Composite(TypeTag, FullFields(PyStr(TypeTag), UInt64(1),
                                         Restrict(FullEnv, EnvFields \ E),
                                         Restrict(FullDemo, DemoFields \ D))) :
              E \in SUBSET EnvFields, D \in SUBSET DemoFields }
    \cup QueryStructs

\* hasattr(obj, name)
hasattr(obj, name) == name \in DOMAIN obj

\* a missing field read as a failure
get_field_value_strict(struct, field_name) ==
    IF hasattr(struct, "fields") /\ field_name \in DOMAIN struct.fields
    THEN LET field_obj == struct.fields[field_name]
         IN  IF hasattr(field_obj, "str") THEN field_obj
             ELSE IF hasattr(field_obj, "value") THEN field_obj.value
             ELSE field_obj
    ELSE [fields |-> <<>>]

\* blockchain.py 511-532
get_field_value(struct, field_name) ==
    IF hasattr(struct, "fields")
    THEN IF field_name \notin DOMAIN struct.fields THEN None
         ELSE LET field_obj == struct.fields[field_name]
              IN  IF hasattr(field_obj, "str") THEN field_obj
                  ELSE IF hasattr(field_obj, "value") THEN field_obj.value
                  ELSE field_obj
    ELSE None

\* int(value) and float(value) raise TypeError on anything but a number
NotANumber(value) == value # None /\ ~hasattr(value, "int")

\* blockchain.py 543-546
uint64_to_int(value) == IF value = None THEN 0 ELSE value.int

\* str(value or '')
StrOrEmpty(value) ==
    IF value = None THEN ""
    ELSE IF hasattr(value, "str") THEN value.str
    ELSE IF hasattr(value, "int") THEN (IF value.int = 0 THEN "" ELSE "number")
    ELSE "object"

\* an int of at most eight decimal digits as a number
ToNat(a) == (IF Len(a) >= 1 THEN a[1] ELSE 0) + 10000 * (IF Len(a) >= 2 THEN a[2] ELSE 0)

\* blockchain.py 562-569
StatusValue(status_enum) ==
    IF hasattr(status_enum, "value") THEN status_enum.value
    ELSE IF hasattr(status_enum, "rawValue") THEN get_field_value(status_enum, "rawValue")
    ELSE status_enum

\* the contract's own names for its three statuses
status_map_contractNames == (0 :> "active") @@ (1 :> "accepted") @@ (2 :> "declined")

\* blockchain.py 573-574
status_map == (0 :> "active") @@ (1 :> "passed") @@ (2 :> "rejected")
StatusOf(status_value) ==
    LET n == IF status_value # None THEN status_value.int ELSE 0
    IN  IF n \in DOMAIN status_map THEN status_map[n] ELSE "active"

\* the conversions that raise inside the decoder's try block
ParseRaises(proposal_struct, proposal_id) ==
    LET env_data == get_field_value(proposal_struct, "environmentalData")
        demo_data == get_field_value(proposal_struct, "demographics")
    IN  \/ proposal_id = None /\ NotANumber(get_field_value(proposal_struct, "id"))
        \/ \E f \in {"yesVotes", "noVotes"} : NotANumber(get_field_value(proposal_struct, f))
        \/ NotANumber(get_field_value(proposal_struct, "endDate"))
        \/ NotANumber(StatusValue(get_field_value(proposal_struct, "status")))
        \/ \E f \in EnvFields : NotANumber(get_field_value(env_data, f))
        \/ \E f \in DemoFields : NotANumber(get_field_value(demo_data, f))

\* the record taken from the struct's own id field
ProposalRecord_ownId(proposal_struct, proposal_id) ==
    LET env_data == get_field_value(proposal_struct, "environmentalData")
        demo_data == get_field_value(proposal_struct, "demographics")
        own == get_field_value(proposal_struct, "id")
    IN  [ id |-> IF own # None /\ hasattr(own, "int") THEN own.int ELSE 0,
          parkName |-> StrOrEmpty(get_field_value(proposal_struct, "parkName")),
          parkId |-> StrOrEmpty(get_field_value(proposal_struct, "parkId")),
          description |-> StrOrEmpty(get_field_value(proposal_struct, "description")),
          yesVotes |-> uint64_to_int(get_field_value(proposal_struct, "yesVotes")),
          noVotes |-> uint64_to_int(get_field_value(proposal_struct, "noVotes")),
          endDate |-> ToNat(IntOf(ufix64_to_float(get_field_value(proposal_struct, "endDate")))),
          creator |-> StrOrEmpty(get_field_value(proposal_struct, "creator")),
          status |-> StatusOf(StatusValue(get_field_value(proposal_struct, "status"))),
          environmentalData |->
              [f \in EnvFields |-> ufix64_to_float(get_field_value(env_data, f))],
          demographics |->
              [f \in DemoFields |-> uint64_to_int(get_field_value(demo_data, f))] ]

\* blockchain.py 548-608: the dict built from the struct
ProposalRecord(proposal_struct, proposal_id) ==
    LET env_data == get_field_value(proposal_struct, "environmentalData")
        demo_data == get_field_value(proposal_struct, "demographics")
    IN  [ id |-> IF proposal_id = None
                 THEN uint64_to_int(get_field_value(proposal_struct, "id"))
                 ELSE proposal_id.int,
          parkName |-> StrOrEmpty(get_field_value(proposal_struct, "parkName")),
          parkId |-> StrOrEmpty(get_field_value(proposal_struct, "parkId")),
          description |-> StrOrEmpty(get_field_value(proposal_struct, "description")),
          yesVotes |-> uint64_to_int(get_field_value(proposal_struct, "yesVotes")),
          noVotes |-> uint64_to_int(get_field_value(proposal_struct, "noVotes")),
          endDate |-> ToNat(IntOf(ufix64_to_float(get_field_value(proposal_struct, "endDate")))),
          creator |-> StrOrEmpty(get_field_value(proposal_struct, "creator")),
          status |-> StatusOf(StatusValue(get_field_value(proposal_struct, "status"))),
          environmentalData |->
              [f \in EnvFields |-> ufix64_to_float(get_field_value(env_data, f))],
          demographics |->
              [f \in DemoFields |-> uint64_to_int(get_field_value(demo_data, f))] ]

\* blockchain.py 494-616: None for nothing to decode and for any exception
_parse_proposal_result(cadence_value, proposal_id) ==
    IF cadence_value = None THEN None
    ELSE IF hasattr(cadence_value, "value") /\ cadence_value.value = None THEN None
    ELSE LET proposal_struct == IF hasattr(cadence_value, "value") THEN cadence_value.value ELSE cadence_value
         IN  IF ParseRaises(proposal_struct, proposal_id) THEN None
             ELSE ProposalRecord(proposal_struct, proposal_id)

(* --------------------------------------------- the query service: calls *)

\* str(e) of the errors a script execution raises, word by word
ErrorMessages ==
    { <<"rate", "limited">>, <<"RESOURCE_EXHAUSTED:", "Rate", "Limited">>,
      <<"connection", "refused">> }
\* str(e) of json.loads' error
JsonError == <<"Expecting", "value">>

\* str.lower(), word by word
Lower(word) ==
    CASE word = "Rate" -> "rate"
      [] word = "Limited" -> "limited"
      [] word = "RESOURCE_EXHAUSTED:" -> "resource_exhausted:"
      [] word = "Expecting" -> "expecting"
      [] OTHER -> word

\* blockchain.py 368: "rate limited" in error_msg.lower()
RateLimited(error_msg) ==
    \E i \in 1..(Len(error_msg) - 1) :
        Lower(error_msg[i]) = "rate" /\ Lower(error_msg[i + 1]) = "limited"

\* every error retried
ShouldRetry_anyError(error_msg, attempt) == attempt < max_retries - 1

\* blockchain.py 368
ShouldRetry(error_msg, attempt) == RateLimited(error_msg) /\ attempt < max_retries - 1

\* the error handed on to the caller
QueryFailed_raises(q) == [q EXCEPT !.raised = TRUE, !.pc = "done"]

\* blockchain.py 374-375: logged, None returned
QueryFailed(q) == [q EXCEPT !.ret = None, !.pc = "done"]

QueryReturn(q, r) == [q EXCEPT !.ret = r, !.pc = "done"]

\* what one execute_script_at_latest_block call may do
ScriptOutcomes ==
    { [kind |-> "raises", msg |-> m] : m \in ErrorMessages }
    \cup { [kind |-> "raises", msg |-> JsonError], [kind |-> "empty"], [kind |-> "result"] }

\* what the ledger holds under the id asked for: nothing, or a proposal
StoredProposals == { [value |-> None] } \cup { [value |-> p] : p \in QueryStructs }

\* what getAllActiveProposals returns: an Array of UInt64, a plain list, an
\* array with an element that is not a number
ActiveArrays ==
    { [value |-> <<>>], [value |-> <<UInt64(1)>>], [value |-> <<UInt64(2), UInt64(1)>>],
      [value |-> <<UInt64(3), UInt64(1), UInt64(2)>>],
      [list |-> <<>>], [list |-> <<PyInt(2), PyInt(1)>>],
      [value |-> <<UInt64(1), PyStr("x")>>] }

\* blockchain.py 404-406: the items of the array or of the list
Items(cadence_value) ==
    IF hasattr(cadence_value, "value") THEN cadence_value.value ELSE cadence_value.list
ItemValue(id) == IF hasattr(id, "value") THEN id.value ELSE id
\* the ids sorted before they are returned
ActiveIdsOf_ascending(cadence_value) ==
    LET ids == { ItemValue(Items(cadence_value)[i]).int : i \in 1..Len(Items(cadence_value)) }
    IN  [i \in 1..Cardinality(ids) |->
            CHOOSE n \in ids : Cardinality({ o \in ids : o < n }) = i - 1]
ActiveIdsOf(cadence_value) ==
    [i \in 1..Len(Items(cadence_value)) |-> ItemValue(Items(cadence_value)[i]).int]
ActiveRaises(cadence_value) ==
    \E i \in 1..Len(Items(cadence_value)) : NotANumber(ItemValue(Items(cadence_value)[i]))

\* a read operation of the service is called
InitQuery ==
    /\ now = T0
    /\ config = [address |-> "f8d6e0586b0a20c7", contract_address |-> "f8d6e0586b0a20c7",
                 private_key |-> TRUE]
    /\ ledger = [ sequence_number |-> 7, balance |-> MinBalanceUnits, txs |-> <<>>,
                  total_proposals |-> 0, proposals |-> <<>> ]
    /\ pc = [c \in Callers |-> "idle"]
    /\ draft = [c \in Callers |-> [endDate |-> Unparseable, parkNameLen |-> 0]]
    /\ locals = [c \in Callers |-> NoLocals]
    /\ result = [c \in Callers |-> NoResult]
    /\ calls = [c \in Callers |-> NoCalls]
    /\ sweeper = NoSweeper
    /\ agent = NoAgent
    /\ \/ \E id \in {1, 2}, v \in StoredProposals :
             query = [NoQuery EXCEPT !.op = "get_proposal", !.pc = "execute",
                                     !.proposal_id = id, !.retry_delay = retry_delay,
                                     !.value = v]
       \/ \E v \in ActiveArrays :
             query = [NoQuery EXCEPT !.op = "get_all_active_proposals", !.pc = "execute",
                                     !.value = v]

\* blockchain.py 334-375: one pass of the retry loop, up to the return or the sleep
get_proposal_attempt ==
    /\ query.op = "get_proposal" /\ query.pc = "execute"
    /\ query.attempt < max_retries
    /\ \E o \in ScriptOutcomes :
          LET q == [query EXCEPT !.executed = @ + 1, !.got = o.kind]
          IN  CASE o.kind = "raises" ->
                     IF ShouldRetry(o.msg, query.attempt)
                     THEN query' = [q EXCEPT !.errors = Append(@, o.msg), !.pc = "sleep"]
                     ELSE query' = QueryFailed([q EXCEPT !.errors = Append(@, o.msg)])
                [] o.kind = "empty" -> query' = QueryReturn(q, None)
                [] o.kind = "result" ->
                     query' = QueryReturn(q, _parse_proposal_result(query.value,
                                                                    PyInt(query.proposal_id)))
    /\ UNCHANGED <<now, config, ledger, pc, draft, locals, result, calls, sweeper, agent>>

\* blockchain.py 370-372: asyncio.sleep(retry_delay), the delay doubled
get_proposal_sleep ==
    /\ query.op = "get_proposal" /\ query.pc = "sleep"
    /\ now' = now + query.retry_delay
    /\ query' = [query EXCEPT !.slept = Append(@, query.retry_delay),
                              !.retry_delay = @ * 2,
                              !.attempt = @ + 1,
                              !.pc = "execute"]
    /\ UNCHANGED <<config, ledger, pc, draft, locals, result, calls, sweeper, agent>>

\* blockchain.py 379-410
get_all_active_proposals ==
    /\ query.op = "get_all_active_proposals" /\ query.pc = "execute"
    /\ \E o \in ScriptOutcomes :
          LET q == [query EXCEPT !.executed = @ + 1, !.got = o.kind]
          IN  CASE o.kind = "raises" ->
                     query' = QueryReturn([q EXCEPT !.errors = Append(@, o.msg)], <<>>)
                [] o.kind = "empty" -> query' = QueryReturn(q, <<>>)
                [] o.kind = "result" ->
                     IF ActiveRaises(query.value)
                     THEN query' = QueryReturn([q EXCEPT !.errors = Append(@, <<"invalid", "literal">>)], <<>>)
                     ELSE query' = QueryReturn(q, ActiveIdsOf(query.value))
    /\ UNCHANGED <<now, config, ledger, pc, draft, locals, result, calls, sweeper, agent>>

NextQuery ==
    \/ get_proposal_attempt
    \/ get_proposal_sleep
    \/ get_all_active_proposals

SpecQuery == InitQuery /\ [][NextQuery]_vars

(* ------------------------------------------------- the decoder by itself *)

\* a script result is handed to the decoder, with the id asked for
InitDecode ==
    /\ now = T0
    /\ config = [address |-> "f8d6e0586b0a20c7", contract_address |-> "f8d6e0586b0a20c7",
                 private_key |-> TRUE]
    /\ ledger = [ sequence_number |-> 7, balance |-> MinBalanceUnits, txs |-> <<>>,
                  total_proposals |-> 0, proposals |-> <<>> ]
    /\ pc = [c \in Callers |-> "idle"]
    /\ draft = [c \in Callers |-> [endDate |-> Unparseable, parkNameLen |-> 0]]
    /\ locals = [c \in Callers |-> NoLocals]
    /\ result = [c \in Callers |-> NoResult]
    /\ calls = [c \in Callers |-> NoCalls]
    /\ sweeper = NoSweeper
    /\ agent = NoAgent
    /\ \E p \in Structs, optional \in BOOLEAN :
          query = [NoQuery EXCEPT !.op = "decode", !.pc = "parse", !.proposal_id = 2,
                                  !.value = IF optional THEN [value |-> p] ELSE p]

\* blockchain.py 494-616
parse_proposal_result ==
    /\ query.op = "decode" /\ query.pc = "parse"
    /\ query' = QueryReturn(query, _parse_proposal_result(query.value, PyInt(query.proposal_id)))
    /\ UNCHANGED <<now, config, ledger, pc, draft, locals, result, calls, sweeper, agent>>

NextDecode == parse_proposal_result

SpecDecode == InitDecode /\ [][NextDecode]_vars

(* -------------------------------------------- the fixed-point conversions *)

\* the decimals converted: hundredths, with up to MaxUnits before the point
Hundredths == 0..99
Decimals == { [units |-> u, frac |-> h * 1000000] : u \in 0..MaxUnits, h \in Hundredths }

\* a metric of the analysis, float(analysis_data.get(...)), about to be encoded
InitRoundTrip ==
    /\ now = T0
    /\ config = [address |-> "f8d6e0586b0a20c7", contract_address |-> "f8d6e0586b0a20c7",
                 private_key |-> TRUE]
    /\ ledger = [ sequence_number |-> 7, balance |-> MinBalanceUnits, txs |-> <<>>,
                  total_proposals |-> 0, proposals |-> <<>> ]
    /\ pc = [c \in Callers |-> "idle"]
    /\ draft = [c \in Callers |-> [endDate |-> Unparseable, parkNameLen |-> 0]]
    /\ locals = [c \in Callers |-> NoLocals]
    /\ result = [c \in Callers |-> NoResult]
    /\ calls = [c \in Callers |-> NoCalls]
    /\ sweeper = NoSweeper
    /\ agent = NoAgent
    /\ \E d \in Decimals :
          query = [NoQuery EXCEPT !.op = "round_trip", !.pc = "encode",
                                  !.x = FloatOfDecimal(d.units, d.frac)]

\* blockchain.py 257-263: the argument handed to the transaction
EncodeUFix64 ==
    /\ query.op = "round_trip" /\ query.pc = "encode"
    /\ query' = [query EXCEPT !.raw = decimal_to_ufix64(query.x), !.pc = "decode"]
    /\ UNCHANGED <<now, config, ledger, pc, draft, locals, result, calls, sweeper, agent>>

\* blockchain.py 535-540: the field read back from the struct
DecodeUFix64 ==
    /\ query.op = "round_trip" /\ query.pc = "decode"
    /\ query' = [query EXCEPT !.ret = ufix64_to_float(PyInt(query.raw)), !.pc = "done"]
    /\ UNCHANGED <<now, config, ledger, pc, draft, locals, result, calls, sweeper, agent>>

NextRoundTrip == EncodeUFix64 \/ DecodeUFix64

SpecRoundTrip == InitRoundTrip /\ [][NextRoundTrip]_vars

(* ================================================================ claims *)
polls(c) == calls[c].get_transaction_result
Sent(c) == locals[c].tx_id # 0
SentTx(c) == ledger.txs[locals[c].tx_id]

\* C1: PollForSeal.  getTransactionResult is never called more than 30 times in
\* one submission; every poll is preceded by its own 2-second sleep; when the
\* N-th poll is the first to report sealed the flow leaves the loop at that poll
\* (N polls made, N - 1 of them not sealed, no further poll); the timeout
\* outcome is returned after exactly 30 polls, none of which ended the loop, and
\* a flow whose 30 polls all came back unsealed ends in the timeout outcome.
C1_PollForSeal ==
    \A c \in Callers :
        LET r == locals[c].tx_result_response IN
        /\ polls(c) <= 30
        /\ calls[c].sleep = polls(c) + (IF pc[c] = "poll" THEN 1 ELSE 0)
        /\ Sent(c) => now >= locals[c].sentAt + 2 * polls(c)
        /\ r.status = TxStatus.SEALED =>
              /\ pc[c] \in {"total", "done"}
              /\ polls(c) = locals[c].attempt + 1
              /\ polls(c) <= 30
        /\ (pc[c] = "done" /\ "error" \in DOMAIN result[c]
              /\ result[c].error = <<"Transaction timeout - please check explorer">>) =>
              /\ polls(c) = 30
              /\ locals[c].attempt = 30
              /\ r.status < TxStatus.SEALED
        /\ (pc[c] = "done" /\ locals[c].attempt = 30) =>
              /\ "error" \in DOMAIN result[c]
              /\ result[c].error = <<"Transaction timeout - please check explorer">>

\* C1 witness: a submission that returned at its 30th poll, the first sealed one
C1_Witness ==
    \E c \in Callers :
        /\ pc[c] = "done"
        /\ polls(c) = 30
        /\ locals[c].tx_result_response.status = TxStatus.SEALED
        /\ result[c].success

\* C2: a transaction observed sealed with a non-empty error message is reported
\* as a failure carrying the ledger's error message and the transaction hash,
\* never as a success.
C2_SealedWithError ==
    \A c \in Callers :
        LET r == locals[c].tx_result_response IN
        (r.status = TxStatus.SEALED /\ r.error_message # "") =>
            /\ pc[c] = "done"
            /\ r.error_message = SentTx(c).error_message
            /\ SentTx(c).tx.by = c
            /\ result[c] = [ success |-> FALSE,
                             error |-> <<"Transaction failed: ", r.error_message>>,
                             transaction_hash |-> locals[c].tx_id ]

C2_Witness ==
    \E c \in Callers :
        /\ pc[c] = "done"
        /\ locals[c].tx_result_response.status = TxStatus.SEALED
        /\ locals[c].tx_result_response.error_message = "execution reverted"
        /\ ~result[c].success

\* C3 (as stated): success is reported only after the transaction was observed
\* sealed without an error message, and then carries the hash, the proposal id
\* read from the count query and the explorer URL.
C3_SucceededOnlyAfterSeal ==
    \A c \in Callers :
        (pc[c] = "done" /\ result[c].success) =>
            /\ locals[c].tx_result_response.status = TxStatus.SEALED
            /\ locals[c].tx_result_response.error_message = ""
            /\ calls[c].get_total_proposals = 1
            /\ result[c].transaction_hash = locals[c].tx_id
            /\ result[c].explorer_url =
                  <<explorer_base_url, "/transaction/", locals[c].tx_id>>

\* C4: when all 30 polls are used up without a sealed result the flow returns
\* the timeout outcome (success = false) with the transaction hash and the
\* explorer URL, and the transaction stays on the ledger as it was sent.
C4_TimedOut ==
    \A c \in Callers :
        (pc[c] = "done" /\ locals[c].attempt = 30) =>
            /\ result[c] =
                  [ success |-> FALSE,
                    error |-> <<"Transaction timeout - please check explorer">>,
                    transaction_hash |-> locals[c].tx_id,
                    explorer_url |-> <<explorer_base_url, "/transaction/", locals[c].tx_id>> ]
            /\ locals[c].tx_id \in 1..Len(ledger.txs)
            /\ SentTx(c).tx = locals[c].tx

\* C4 witness: a submission that timed out and whose transaction sealed later
C4_Witness ==
    \E c \in Callers :
        /\ pc[c] = "done"
        /\ locals[c].attempt = 30
        /\ ~result[c].success
        /\ locals[c].tx_result_response.status < TxStatus.SEALED
        /\ SentTx(c).status = TxStatus.SEALED
        /\ SentTx(c).error_message = ""

\* C5: a failed ping ends the call in Failed("not connected"): the account is
\* not read, the summarizer is not called, no transaction is sent, and the
\* ledger holds no transaction of this caller.
C5_NotConnected ==
    \A c \in Callers :
        (calls[c].ping > 0 /\ ~locals[c].connected) =>
            /\ pc[c] = "done"
            /\ result[c] = [success |-> FALSE, error |-> <<"Not connected to Flow blockchain">>]
            /\ calls[c] = [NoCalls EXCEPT !.ping = 1]
            /\ locals[c].tx = NoTx
            /\ \A i \in 1..Len(ledger.txs) : ledger.txs[i].tx.by # c

C5_Witness ==
    \E c \in Callers :
        /\ pc[c] = "done"
        /\ calls[c].ping = 1
        /\ ~locals[c].connected
        /\ config.address # "" /\ config.private_key

\* C6 (as stated): with no private key or no account address configured, every
\* write operation, createProposal and the sweeper's close alike, fails closed
\* with a configuration error and sends no transaction.
C6_WritesFailClosedWithoutConfig ==
    (config.address = "" \/ ~config.private_key) =>
        /\ \A c \in Callers :
              /\ calls[c].send_transaction = 0
              /\ (pc[c] = "done" /\ locals[c].connected) =>
                    result[c] = [success |-> FALSE, error |-> <<"Flow account not configured">>]
        /\ sweeper.sent = 0
        /\ sweeper.closed_count = 0
        /\ sweeper.close_error \in {"none", "Flow account not configured"}

\* C7: a balance below 0.001 (100000 smallest units) ends the flow in
\* Failed("insufficient balance") with no transaction built, signed or sent; a
\* balance of exactly 0.001 or more passes the check.
C7_BalanceCheck ==
    \A c \in Callers :
        LET a == locals[c].account IN
        a # NoAccount =>
            /\ a.balance < 100000 =>
                  /\ pc[c] = "done"
                  /\ result[c] = [ success |-> FALSE,
                                   error |-> <<"Insufficient balance: ", a.balance, " FLOW">> ]
                  /\ locals[c].tx = NoTx
                  /\ calls[c].get_latest_block = 0
                  /\ calls[c].send_transaction = 0
            /\ a.balance >= 100000 =>
                  /\ ~("error" \in DOMAIN result[c]
                          /\ result[c].error = <<"Insufficient balance: ", a.balance, " FLOW">>)
                  /\ pc[c] = "done" => calls[c].get_latest_block = 1

C7_Witness ==
    \E c \in Callers :
        /\ pc[c] = "done"
        /\ locals[c].account.balance = 99999
        /\ result[c].error = <<"Insufficient balance: ", 99999, " FLOW">>

\* C8 (as stated): the end date of a create transaction exceeds the current
\* time plus the 1-hour buffer at the moment the transaction is constructed.
C8_EndDateBeyondBufferAtConstruction ==
    \A c \in Callers :
        pc[c] = "send" => locals[c].tx.endDate > now + 3600

\* C9: NormalizeEndDate.  A parsed end date more than 1 hour after now is kept;
\* one in the past or at most 1 hour after now (boundary included) becomes
\* now + 30 days + 1 hour; an unparseable one becomes now + 30 days.
C9_NormalizeEndDate ==
    \A c \in Callers :
        pc[c] = "summary" =>
            LET d == draft[c].endDate
                e == locals[c].end_timestamp
            IN  /\ (d # Unparseable /\ d > now + 3600) => e = d
                /\ (d # Unparseable /\ d <= now + 3600) => e = now + 2592000 + 3600
                /\ d = Unparseable => e = now + 2592000

\* C9 witness: the boundary, a date exactly one hour ahead, was overridden
C9_Witness ==
    \E c \in Callers :
        /\ pc[c] = "summary"
        /\ draft[c].endDate = now + 3600
        /\ locals[c].end_timestamp = now + 2592000 + 3600

\* C10 (as stated): the description produced by GenerateSummary is between 230
\* and 240 characters inclusive, for every summarizer reply and for the fallback.
C10_SummaryLength ==
    \A c \in Callers :
        locals[c].description.kind # "none" =>
            /\ locals[c].description.len >= 230
            /\ locals[c].description.len <= 240

\* C11: a summarizer failure never fails or blocks createProposal.  Once the
\* summarizer was asked the flow holds a description, either the constrained
\* reply or, when the summarizer failed, the fallback whose text depends on the
\* park name and the metrics alone (its length: the park name plus the 28
\* characters of ": NDVI 0.7→0.2, PM2.5 +75.0%"); the flow then goes on to the
\* account read, and no result names the summarizer.
C11_SummarizerFailureFallsBack ==
    \A c \in Callers :
        calls[c].summarizer = 1 =>
            /\ locals[c].description.kind \in {"summary", "fallback"}
            /\ locals[c].description.kind = "fallback" =>
                  locals[c].description.len = draft[c].parkNameLen + 28
            /\ pc[c] = "done" => calls[c].get_account = 1
            /\ result[c] # [success |-> FALSE, error |-> <<"exception", "summarizer">>]

\* C11 witness: a call whose summarizer failed ended in success
C11_Witness ==
    \E c \in Callers :
        /\ locals[c].description.kind = "fallback"
        /\ pc[c] = "done"
        /\ result[c].success
        /\ SentTx(c).tx.description.kind = "fallback"

\* C12: one call to createProposal calls sendTransaction at most once.  The
\* block is fetched and the transaction built at most once, the ledger holds at
\* most one transaction of the call whatever the polls report, and a send that
\* raised ends the call at once in a failure carrying the error.
C12_SendAtMostOnce ==
    \A c \in Callers :
        /\ calls[c].send_transaction <= 1
        /\ calls[c].get_latest_block <= 1
        /\ Cardinality({i \in 1..Len(ledger.txs) : ledger.txs[i].tx.by = c}) <= 1
        /\ (calls[c].send_transaction = 1 /\ ~Sent(c)) =>
              /\ pc[c] = "done"
              /\ result[c] = [success |-> FALSE, error |-> <<"exception", "send_transaction">>]
              /\ calls[c].get_transaction_result = 0

\* C12 witness: a call whose only send raised
C12_Witness ==
    \E c \in Callers :
        /\ pc[c] = "done"
        /\ calls[c].send_transaction = 1
        /\ locals[c].tx # NoTx
        /\ ~Sent(c)
        /\ ledger.txs = <<>>

SignedTxs ==
    ({locals[c].tx : c \in Callers} \cup {sweeper.tx}
        \cup {ledger.txs[i].tx : i \in 1..Len(ledger.txs)}) \ {NoTx}

\* C14 (as stated): no two different transactions are ever signed with the same
\* (account, key index 0, sequence number), whatever the interleaving of the
\* writers of one account.
C14_NoSharedSequenceNumber ==
    \A t, u \in SignedTxs :
        t # u => t.key_sequence_number # u.key_sequence_number

\* the ledger's answer to a transaction whose sequence number was already used
Rejected(t) == t.error_message = "invalid proposal key sequence number"
\* the transaction was executed and used up its sequence number
Accepted(t) == t.status \in {TxStatus.EXECUTED, TxStatus.SEALED} /\ ~Rejected(t)

\* C15: when two concurrent submissions from the same account were built on
\* the same sequence number, the ledger accepts at most one of them; the
\* rejected one is reported to its caller as a failure (success = false, with
\* the ledger's message when a poll saw it sealed), and its caller read the
\* account, built and sent only once.
C15_StaleSequenceRejected ==
    \A c, d \in Callers :
        (c # d /\ Sent(c) /\ Sent(d)
            /\ locals[c].account.sequence_number = locals[d].account.sequence_number) =>
            /\ ~(Accepted(SentTx(c)) /\ Accepted(SentTx(d)))
            /\ Rejected(SentTx(d)) =>
                  /\ calls[d].get_account = 1
                  /\ calls[d].get_latest_block = 1
                  /\ calls[d].send_transaction = 1
                  /\ pc[d] = "done" =>
                        /\ result[d].success = FALSE
                        /\ "error" \in DOMAIN result[d]
                  /\ locals[d].tx_result_response.status = TxStatus.SEALED =>
                        result[d] = [ success |-> FALSE,
                                      error |-> <<"Transaction failed: ",
                                                  "invalid proposal key sequence number">>,
                                      transaction_hash |-> locals[d].tx_id ]

\* C15 witness: two calls built on the same sequence number, one sealed and
\* reported as a success, the other rejected and reported as a failure
C15_Witness ==
    \E c, d \in Callers :
        /\ c # d
        /\ pc[c] = "done" /\ pc[d] = "done"
        /\ Sent(c) /\ Sent(d)
        /\ locals[c].tx.key_sequence_number = locals[d].tx.key_sequence_number
        /\ SentTx(c).status = TxStatus.SEALED /\ SentTx(c).error_message = ""
        /\ result[c].success
        /\ Rejected(SentTx(d))
        /\ result[d] = [ success |-> FALSE,
                         error |-> <<"Transaction failed: ",
                                     "invalid proposal key sequence number">>,
                         transaction_hash |-> locals[d].tx_id ]

\* C16 (as stated): every failure of createProposal or of a close that comes
\* after the transaction was sent (seal error, seal timeout, an error raised
\* while polling) reaches the caller together with the transaction hash.
C16_FailureAfterSendCarriesHash ==
    \A c \in Callers :
        (pc[c] = "done" /\ Sent(c) /\ ~result[c].success) =>
            /\ "transaction_hash" \in DOMAIN result[c]
            /\ result[c].transaction_hash = locals[c].tx_id

\* the end date the ledger holds for a proposal id
EndDateOf(id) == ledger.proposals[id].endDate
\* the close transactions that reached the ledger for a proposal id
CloseTxsFor(id) ==
    {i \in 1..Len(ledger.txs) : ledger.txs[i].tx.kind = "close" /\ ledger.txs[i].tx.proposal_id = id}

\* C17: the sweeper builds and submits a close transaction for a proposal id
\* only if now > endDate, now being the time the sweep read before its loop
\* (never ahead of the clock).  A proposal whose endDate is equal to or later
\* than that is counted as skipped once its details were fetched, and no
\* transaction is built or sent for it.
C17_CloseOnlyAfterEndDate ==
    /\ sweeper.current_time <= now
    /\ \A i \in 1..Len(ledger.txs) :
          ledger.txs[i].tx.kind = "close" =>
              /\ sweeper.current_time > EndDateOf(ledger.txs[i].tx.proposal_id)
              /\ now > EndDateOf(ledger.txs[i].tx.proposal_id)
    /\ sweeper.tx # NoTx => sweeper.current_time > EndDateOf(sweeper.tx.proposal_id)
    /\ \A k \in 1..Len(sweeper.outcome) :
          LET o == sweeper.outcome[k] IN
          /\ o.at = "close" => sweeper.current_time > EndDateOf(o.id)
          /\ EndDateOf(o.id) >= sweeper.current_time =>
                /\ o.at \in {"details", "end date"}
                /\ o.at = "end date" => o.counted = "skipped"
                /\ o.at = "details" => o.counted = "failed"
                /\ ~o.sent
                /\ CloseTxsFor(o.id) = {}

\* C17 witness: in one sweep a proposal that ended was closed and a proposal
\* ending at this very second was skipped
C17_Witness ==
    \E k, j \in 1..Len(sweeper.outcome) :
        /\ sweeper.outcome[k].counted = "skipped"
        /\ EndDateOf(sweeper.outcome[k].id) = sweeper.current_time
        /\ sweeper.outcome[j].counted = "closed"
        /\ EndDateOf(sweeper.outcome[j].id) < sweeper.current_time
        /\ CloseTxsFor(sweeper.outcome[j].id) # {}

\* how many ids of the sweep were counted as closed, skipped or failed
Counted(what) ==
    Cardinality({k \in 1..Len(sweeper.outcome) : sweeper.outcome[k].counted = what})

\* C18: the counting rules of a sweep.  An id whose details could not be
\* fetched or whose end date could not be extracted is counted failed; an
\* expired id whose close was seen sealed without error is counted closed; an
\* expired id whose close was not sent, was sealed with an error or ran out of
\* polls is counted failed; an id that is not expired is counted skipped.  The
\* three counters are the numbers of ids so counted and the summary reports
\* them; the sweep over A (ended, close sealed), B (still open) and C (fetch
\* failed) reports closed 1, skipped 1, failed 1.
C18_SweepCounts ==
    /\ \A k \in 1..Len(sweeper.outcome) :
          LET o == sweeper.outcome[k]
              ended == sweeper.current_time > EndDateOf(o.id)
          IN  /\ o.at = "details" => o.counted = "failed"
              /\ (o.at # "details" /\ ~ended) => o.counted = "skipped"
              /\ (o.at # "details" /\ ended) =>
                    /\ (o.seen.status = TxStatus.SEALED /\ o.seen.error_message = "") =>
                          o.counted = "closed"
                    /\ (o.seen.status = TxStatus.SEALED /\ o.seen.error_message # "") =>
                          o.counted = "failed"
                    /\ ~o.sent => o.counted = "failed"
                    /\ o.exhausted => o.counted = "failed"
    /\ sweeper.closed_count = Counted("closed")
    /\ sweeper.skipped_count = Counted("skipped")
    /\ sweeper.failed_count = Counted("failed")
    /\ (sweeper.pc = "finished" /\ sweeper.active_proposals # <<>>) =>
          sweeper.log = [ total |-> Len(sweeper.active_proposals),
                          closed |-> Counted("closed"), skipped |-> Counted("skipped"),
                          failed |-> Counted("failed") ]
    /\ (sweeper.pc = "finished" /\ Len(sweeper.outcome) = 3) =>
          LET A == sweeper.outcome[1]
              B == sweeper.outcome[2]
              C == sweeper.outcome[3]
          IN  ( /\ EndDateOf(A.id) < sweeper.current_time
                /\ A.seen.status = TxStatus.SEALED /\ A.seen.error_message = ""
                /\ EndDateOf(B.id) > sweeper.current_time /\ B.at # "details"
                /\ C.at = "details" ) =>
              sweeper.log = [total |-> 3, closed |-> 1, skipped |-> 1, failed |-> 1]

\* C18 witness: the sweep over A, B and C ended with its summary
C18_Witness ==
    /\ sweeper.pc = "finished"
    /\ Len(sweeper.outcome) = 3
    /\ EndDateOf(1) < sweeper.current_time /\ EndDateOf(2) > sweeper.current_time
    /\ sweeper.outcome[1].seen.status = TxStatus.SEALED
    /\ sweeper.outcome[1].counted = "closed"
    /\ ledger.proposals[1].status = "closed"
    /\ sweeper.outcome[2].counted = "skipped"
    /\ sweeper.outcome[3].at = "details"
    /\ sweeper.log = [total |-> 3, closed |-> 1, skipped |-> 1, failed |-> 1]

\* C19: a failure on one proposal id never aborts the sweep.  The ids are
\* taken in the order of the fetched list, one outcome each; while the loop
\* runs the ids before the current one have their outcome, and a sweep that
\* began its loop finishes only when every id of the list has one.  The script
\* raises only before the list is fetched.
C19_SweepProcessesEveryId ==
    /\ Len(sweeper.outcome) <= Len(sweeper.active_proposals)
    /\ \A k \in 1..Len(sweeper.outcome) :
          sweeper.outcome[k].id = sweeper.active_proposals[k]
    /\ sweeper.pc \in {"details", "close_account", "close_build", "close_send",
                       "close_loop", "close_poll"} =>
          Len(sweeper.outcome) = sweeper.idx - 1
    /\ sweeper.pc = "finished" =>
          Len(sweeper.outcome) = Len(sweeper.active_proposals)
    /\ sweeper.pc = "raised" => sweeper.active_proposals = <<>>

\* C19 witness: the close of the first id failed after its transaction was
\* sent, the id after it was closed, and the sweep finished
C19_Witness ==
    /\ sweeper.pc = "finished"
    /\ Len(sweeper.outcome) = 2
    /\ sweeper.outcome[1].counted = "failed"
    /\ sweeper.outcome[1].at = "close"
    /\ sweeper.outcome[1].sent
    /\ sweeper.outcome[2].counted = "closed"

\* C20 (as stated): when the active proposal list is empty, or its fetch
\* failed and gave an empty list, the sweep sends no transaction and reports
\* the counts closed = 0, skipped = 0, failed = 0.
C20_EmptySweepReportsZeroCounts ==
    (sweeper.pc = "finished" /\ sweeper.active_proposals = <<>>) =>
        /\ sweeper.sent = 0
        /\ ledger.txs = <<>>
        /\ sweeper.outcome = <<>>
        /\ {"closed", "skipped", "failed"} \subseteq DOMAIN sweeper.log
        /\ sweeper.log.closed = 0
        /\ sweeper.log.skipped = 0
        /\ sweeper.log.failed = 0

\* how many times a proposal id was counted as closed, over all runs
TimesClosed(id) ==
    Cardinality({k \in 1..Len(sweeper.ever_closed) : sweeper.ever_closed[k] = id})

\* C21 (as stated): over any sequence of sweep runs each expired proposal is
\* closed exactly once: at most one close transaction for a proposal id is
\* counted as closed, and a run that follows issues no close transaction for a
\* proposal an earlier run counted as closed.
C21_ClosedExactlyOnce ==
    /\ \A id \in 1..Len(ledger.proposals) : TimesClosed(id) <= 1
    /\ sweeper.tx # NoTx => TimesClosed(sweeper.tx.proposal_id) = 0

\* transaction j is a close sent by the current run for a proposal that a
\* transaction of an earlier run closed, and the ledger rejected it (stale
\* sequence number) or reported an error
RepeatedCloseRefused(j) ==
    /\ j > sweeper.txs_before
    /\ ledger.txs[j].tx.kind = "close"
    /\ ledger.txs[j].error_message # ""
    /\ \E i \in 1..sweeper.txs_before :
          /\ ledger.txs[i].tx.kind = "close"
          /\ ledger.txs[i].tx.proposal_id = ledger.txs[j].tx.proposal_id
          /\ Accepted(ledger.txs[i])
          /\ ledger.txs[i].error_message = ""

\* C22: when a close transaction targets a proposal that is already closed
\* and the ledger rejects it or reports an error, the sweep counts that id as
\* failed, never as closed, and goes on with the remaining ids: the script
\* does not raise, and it finishes only with an outcome for every id.
C22_RepeatedCloseIsSoftFailure ==
    \A j \in 1..Len(ledger.txs) :
        RepeatedCloseRefused(j) =>
            /\ sweeper.pc # "raised"
            /\ \A k \in 1..Len(sweeper.outcome) :
                  sweeper.outcome[k].id = ledger.txs[j].tx.proposal_id =>
                      /\ sweeper.outcome[k].counted = "failed"
                      /\ sweeper.failed_count >= 1
            /\ sweeper.pc = "finished" =>
                  /\ Len(sweeper.outcome) = Len(sweeper.active_proposals)
                  /\ \E k \in 1..Len(sweeper.outcome) :
                        sweeper.outcome[k].id = ledger.txs[j].tx.proposal_id

\* C22 witness: the second run's close of proposal 1, which the first run's
\* late transaction had closed, was reverted by the contract and seen sealed
\* with that error; the run counted it failed, skipped proposal 2 and finished
C22_Witness ==
    /\ sweeper.run = 2
    /\ sweeper.pc = "finished"
    /\ Len(sweeper.outcome) = 2
    /\ sweeper.outcome[1].counted = "failed"
    /\ sweeper.outcome[1].seen.status = TxStatus.SEALED
    /\ sweeper.outcome[1].seen.error_message = "execution reverted"
    /\ sweeper.outcome[2].counted = "skipped"
    /\ \E j \in 1..Len(ledger.txs) : RepeatedCloseRefused(j)
    /\ ledger.proposals[1].status = "closed"

\* C28: fixed-point round trip: for every non-negative decimal x with at most
\* 8 fractional digits, decoding (raw / 1e8) the encoding int(x * 1e8) yields
\* x again
C28_RoundTrip ==
    (query.op = "round_trip" /\ query.pc = "done") => query.ret = query.x

\* the messages of ErrorMessages that contain "rate limited" in some casing
SaysRateLimited(msg) ==
    msg \in { <<"rate", "limited">>, <<"RESOURCE_EXHAUSTED:", "Rate", "Limited">> }

\* C23: getProposal makes at most 3 script-execution attempts; it retries only
\* when the error message contains "rate limited" (in any casing), sleeping 2
\* seconds before the 2nd attempt and 4 seconds before the 3rd; any other
\* error ends the call right after the attempt that raised it
C23_RetryOnlyWhenRateLimited ==
    query.op = "get_proposal" =>
        /\ query.executed <= 3
        /\ \A i \in 1..Len(query.errors) :
              ~SaysRateLimited(query.errors[i]) =>
                  i = Len(query.errors) /\ query.pc = "done" /\ query.executed = i
        /\ query.slept \in { <<>>, <<2>>, <<2, 4>> }
        /\ query.executed >= 2 => Len(query.slept) >= 1
        /\ query.executed >= 3 => query.slept = <<2, 4>>
        /\ Len(query.slept) <= query.executed
        /\ now = T0 + (IF query.slept = <<>> THEN 0 ELSE IF query.slept = <<2>> THEN 2 ELSE 6)

\* two rate-limit errors, the second in another casing, then a third attempt
C23_Witness ==
    /\ query.op = "get_proposal" /\ query.pc = "done"
    /\ query.executed = 3
    /\ query.slept = <<2, 4>>
    /\ Len(query.errors) = 2
    /\ query.errors[2] = <<"RESOURCE_EXHAUSTED:", "Rate", "Limited">>
    /\ now = T0 + 6

\* the struct found under the id, when there is one
Found == IF "value" \in DOMAIN query.value THEN query.value.value ELSE query.value
IsStruct(v) == "fields" \in DOMAIN v
\* a status neither a scalar nor an enum with a rawValue attribute: int() raises
StatusUndecodable(p) ==
    /\ "status" \in DOMAIN p.fields
    /\ "value" \notin DOMAIN p.fields.status
    /\ "rawValue" \notin DOMAIN p.fields.status

\* C24: getProposal never propagates an error to its caller: on a
\* non-rate-limit error, on a rate-limit error at the third attempt, on a
\* decode failure, and when the ledger reports no proposal, it returns None
C24_NeverPropagates ==
    (query.op = "get_proposal" /\ query.pc = "done") =>
        /\ ~query.raised
        /\ query.ret # [none |-> TRUE]
        /\ query.got \in {"raises", "empty"} => query.ret = [is_none |-> TRUE]
        /\ (query.got = "result" /\ ~IsStruct(Found)) => query.ret = [is_none |-> TRUE]
        /\ (query.got = "result" /\ IsStruct(Found) /\ StatusUndecodable(Found))
              => query.ret = [is_none |-> TRUE]

\* a rate-limit error at the third attempt
C24_Witness ==
    /\ query.op = "get_proposal" /\ query.pc = "done"
    /\ query.executed = 3 /\ Len(query.errors) = 3 /\ query.got = "raises"
    /\ SaysRateLimited(query.errors[3])
    /\ query.ret = [is_none |-> TRUE]
    /\ ~query.raised

\* C26: the id of a record returned by getProposal(id) equals the id asked
\* for, whatever the struct's own id field holds; when that field holds the
\* type-tag string the decoder does not raise and does not use the tag as id
C26_IdIsTheIdAskedFor ==
    (/\ query.op = "get_proposal" /\ query.pc = "done"
     /\ query.got = "result"
     /\ IsStruct(Found) /\ ~StatusUndecodable(Found))
        => /\ "id" \in DOMAIN query.ret
           /\ query.ret.id = query.proposal_id

\* id 2 asked for, the struct's id field holds the type tag
C26_Witness ==
    /\ query.op = "get_proposal" /\ query.pc = "done"
    /\ query.proposal_id = 2
    /\ IsStruct(Found)
    /\ Found.fields.id = [str |-> "A.0x01.CommunityVoting.Proposal"]
    /\ "id" \in DOMAIN query.ret
    /\ query.ret.id = 2

\* the ids of a script result in the ledger's order, for the results of ActiveArrays
IdsInLedgerOrder(v) ==
    CASE v = [value |-> <<[value |-> [int |-> 1]]>>] -> <<1>>
      [] v = [value |-> <<[value |-> [int |-> 2]], [value |-> [int |-> 1]]>>] -> <<2, 1>>
      [] v = [value |-> <<[value |-> [int |-> 3]], [value |-> [int |-> 1]],
                          [value |-> [int |-> 2]]>>] -> <<3, 1, 2>>
      [] v = [list |-> <<[int |-> 2], [int |-> 1]>>] -> <<2, 1>>
      [] OTHER -> <<>>

\* C25: getAllActiveProposalIds always returns a list and never an error: the
\* empty list on an empty ledger state, on an empty script result and on any
\* network or decoding error; otherwise the ids in the ledger's order
C25_ActiveIdsAlwaysAList ==
    (query.op = "get_all_active_proposals" /\ query.pc = "done") =>
        /\ ~query.raised
        /\ query.got \in {"raises", "empty"} => query.ret = <<>>
        /\ query.got = "result" => query.ret = IdsInLedgerOrder(query.value)

\* the ledger returned 3, 1, 2
C25_Witness ==
    /\ query.op = "get_all_active_proposals" /\ query.pc = "done"
    /\ query.got = "result"
    /\ query.ret = <<3, 1, 2>>

\* what the fields of the fully populated proposal decode to
DecodedStrings ==
    [ parkName |-> "Central Park", parkId |-> "P-17", description |-> "Remove two acres",
      creator |-> "0xf8d6e0586b0a20c7" ]
DecodedCounts == [ yesVotes |-> 5, noVotes |-> 3 ]
DecodedEnv ==
    [ ndviBefore |-> FloatOfDecimal(0, 70000000), ndviAfter |-> FloatOfDecimal(0, 20000000),
      pm25Before |-> FloatOfDecimal(12, 0), pm25After |-> FloatOfDecimal(21, 0),
      pm25IncreasePercent |-> FloatOfDecimal(75, 0),
      vegetationLossPercent |-> FloatOfDecimal(50, 0) ]
DecodedDemo == [ children |-> 100, adults |-> 400, seniors |-> 50, totalAffectedPopulation |-> 550 ]
Present(f) == f \in DOMAIN Found.fields
PresentIn(sub, f) == Present(sub) /\ f \in DOMAIN Found.fields[sub].fields

\* C27: decoding is total over partially populated structs: for every subset
\* of missing fields (a missing environmentalData or demographics sub-struct
\* included) the decoder returns a record in which each missing numeric field
\* is 0 (a missing status reads as 0, "active"), each missing string field is
\* "", and the other fields keep their decoded values
C27_DecodingIsTotal ==
    (query.op = "decode" /\ query.pc = "done" /\ ~StatusUndecodable(Found)) =>
        /\ DOMAIN query.ret = { "id", "parkName", "parkId", "description", "yesVotes",
                                "noVotes", "endDate", "creator", "status",
                                "environmentalData", "demographics" }
        /\ \A f \in DOMAIN DecodedStrings :
              query.ret[f] = IF Present(f) THEN DecodedStrings[f] ELSE ""
        /\ \A f \in DOMAIN DecodedCounts :
              query.ret[f] = IF Present(f) THEN DecodedCounts[f] ELSE 0
        /\ query.ret.endDate = IF Present("endDate") THEN T0 + 10 ELSE 0
        /\ ~Present("status") => query.ret.status = "active"
        /\ \A f \in DOMAIN DecodedEnv :
              query.ret.environmentalData[f] =
                  IF PresentIn("environmentalData", f) THEN DecodedEnv[f]
                  ELSE [m |-> <<>>, k |-> 0]
        /\ \A f \in DOMAIN DecodedDemo :
              query.ret.demographics[f] =
                  IF PresentIn("demographics", f) THEN DecodedDemo[f] ELSE 0

\* no park name, no end date, no status and no environmentalData sub-struct
C27_Witness ==
    /\ query.op = "decode" /\ query.pc = "done"
    /\ DOMAIN Found.fields = { "id", "parkId", "description", "yesVotes", "noVotes",
                               "creator", "demographics" }
    /\ "parkName" \in DOMAIN query.ret
    /\ query.ret.parkName = "" /\ query.ret.endDate = 0 /\ query.ret.yesVotes = 5
    /\ query.ret.environmentalData.ndviBefore = [m |-> <<>>, k |-> 0]
    /\ query.ret.demographics.adults = 400

\* createProposal returned success to the agent
Succeeded(c) == pc[c] = "done" /\ "success" \in DOMAIN result[c] /\ result[c].success

\* C29: the notifier is invoked only after createProposal returned success, at
\* most once per submission, and a notifier failure (a false return or a
\* raised error) never changes the reported outcome: the caller still gets
\* the success reply with the proposal id, hash and explorer URL
C29_NotifierNeverChangesOutcome ==
    /\ agent.notified <= 1
    /\ agent.notified = 1 => Succeeded("c1")
    /\ (agent.pc = "replied" /\ Succeeded("c1")) =>
          agent.reply =
              [ action |-> "proposal_created",
                reply |-> <<"Successfully submitted to Flow testnet blockchain!",
                            result["c1"].proposal_id, result["c1"].transaction_hash,
                            result["c1"].explorer_url>>,
                blockchain |-> result["c1"] ]

\* the notifier raised and the success reply went out
C29_Witness ==
    /\ agent.pc = "replied" /\ Succeeded("c1")
    /\ agent.notified = 1 /\ agent.notifier = "raised"
    /\ "blockchain" \in DOMAIN agent.reply
    /\ agent.reply.blockchain = result["c1"]

\* the caller's two transactions, once the retried call has sent its own
BothSent == agent.retries >= 1 /\ Len(ledger.txs) >= 2
SealedOk(i) == ledger.txs[i].status = 4 /\ ledger.txs[i].error_message = ""

\* C30: a caller that retries createProposal after an inconclusive first
\* attempt (TimedOut) consumes a new sequence number, and when the first
\* transaction later seals the ledger ends with two proposals for the same
\* draft
C30_RetryConsumesNewSequenceNumber ==
    BothSent =>
        /\ ledger.txs[2].tx.key_sequence_number # ledger.txs[1].tx.key_sequence_number
        /\ (SealedOk(1) /\ SealedOk(2)) =>
              /\ Len(ledger.proposals) = 2
              /\ ledger.proposals[1].endDate = ledger.proposals[2].endDate

\* both transactions sealed and the draft is on the ledger twice
DuplicateOnLedger ==
    /\ BothSent /\ SealedOk(1) /\ SealedOk(2)
    /\ Len(ledger.proposals) = 2

\* C31: within one createProposal call the steps run in the order
\* CheckConnectivity, CheckConfiguration, NormalizeEndDate, CheckBalance,
\* GenerateSummary, BuildAndSign, Submit, PollForSeal: the summarizer is asked
\* only after the balance check has passed, so a submission that fails with
\* insufficient balance never calls the summarizer
C31_SummarizerOnlyAfterBalanceCheck ==
    /\ calls["c1"].summarizer > 0 =>
          /\ calls["c1"].get_account > 0
          /\ locals["c1"].account.balance >= 100000
    /\ (pc["c1"] = "done" /\ "error" \in DOMAIN result["c1"]
        /\ result["c1"].error[1] = "Insufficient balance: ")
          => calls["c1"].summarizer = 0

\* the transactions whose createProposal was committed by the contract
CommittedCreates ==
    {j \in 1..Len(ledger.txs) :
        /\ ledger.txs[j].tx.kind = "create"
        /\ ledger.txs[j].status \in {TxStatus.EXECUTED, TxStatus.SEALED}
        /\ ledger.txs[j].error_message = ""}

\* the id the contract gave to the proposal of transaction i: the counter as it
\* stood when i was executed, i.e. today's counter less the creates committed
\* after i (committed transactions carry increasing sequence numbers)
CreatedBy(i) ==
    ledger.total_proposals
    - Cardinality({j \in CommittedCreates :
          ledger.txs[j].tx.key_sequence_number > ledger.txs[i].tx.key_sequence_number})

\* C32: the proposal id returned by a successful createProposal identifies the
\* proposal created by that very transaction, also when another create
\* transaction seals between this transaction's seal and the count query
C32_IdIsOfOwnTransaction ==
    \A c \in ConcurrentCallers :
        (/\ pc[c] = "done" /\ "success" \in DOMAIN result[c] /\ result[c].success
         /\ locals[c].tx_id \in CommittedCreates
         /\ result[c].proposal_id # 0)
        => result[c].proposal_id = CreatedBy(locals[c].tx_id)

\* C33: a failure to fetch or decode the total-proposal-count after the seal is
\* propagated to the caller; createProposal never reports success with a zeroed
\* (0) proposal id standing in for a failed count query (once the call's own
\* proposal is committed the counter is at least 1, so 0 is never the counter)
C33_NoZeroedProposalId ==
    (/\ pc["c1"] = "done" /\ "success" \in DOMAIN result["c1"] /\ result["c1"].success
     /\ locals["c1"].tx_id \in CommittedCreates)
    => /\ ledger.total_proposals >= 1
       /\ result["c1"].proposal_id # 0

\* C34: a transaction whose result status is expired (the status code above
\* sealed) is never reported as Succeeded by createProposal: only the sealed
\* status without an error message counts as success
C34_ExpiredIsNotSuccess ==
    (pc["c1"] = "done" /\ "success" \in DOMAIN result["c1"] /\ result["c1"].success)
    => /\ locals["c1"].tx_result_response.status # TxStatus.EXPIRED
       /\ locals["c1"].tx_result_response.status = TxStatus.SEALED
       /\ locals["c1"].tx_result_response.error_message = ""

\* the close transactions this sweep has sent, as positions in the ledger's list
SweepTxs == {i \in 1..Len(ledger.txs) : ledger.txs[i].tx.by = "sweeper"}

\* the ids whose close_proposal call sent its transaction and has returned
ReturnedCloses == {k \in 1..Len(sweeper.outcome) : sweeper.outcome[k].sent}

\* C35: within one sweep the close transactions are serialized: the account
\* read, build, sign and send for the next id start only after the close
\* transaction of the previous id reached an outcome (seen sealed, seen sealed
\* with an error, timeout or exception), each transaction is signed with the
\* sequence number its own call read, and no two close transactions of the
\* sweep that the ledger accepted carry the same sequence number
C35_ClosesAreSerialized ==
    /\ sweeper.pc \in {"close_account", "close_build", "close_send"} =>
          /\ Len(sweeper.outcome) = sweeper.idx - 1
          /\ Cardinality(ReturnedCloses) = sweeper.sent
          /\ Cardinality(SweepTxs) = sweeper.sent
    /\ sweeper.pc \in {"close_loop", "close_poll"} =>
          /\ Len(sweeper.outcome) = sweeper.idx - 1
          /\ Cardinality(ReturnedCloses) = sweeper.sent - 1
          /\ sweeper.tx_id = Len(ledger.txs)
    /\ sweeper.tx # NoTx =>
          sweeper.tx.key_sequence_number = sweeper.account.sequence_number
    /\ \A i, j \in SweepTxs :
          (i < j /\ Accepted(ledger.txs[i]) /\ Accepted(ledger.txs[j])) =>
             ledger.txs[i].tx.key_sequence_number < ledger.txs[j].tx.key_sequence_number

\* two ids were closed one after the other, both transactions accepted
C35_Witness ==
    /\ sweeper.pc = "finished"
    /\ sweeper.sent = 2
    /\ Len(ledger.txs) = 2
    /\ Accepted(ledger.txs[1]) /\ Accepted(ledger.txs[2])
    /\ ledger.txs[1].tx.proposal_id # ledger.txs[2].tx.proposal_id

\* closed_count + skipped_count + failed_count
CounterSum(sw) == sw.closed_count + sw.skipped_count + sw.failed_count

\* the state of the counters at one point of a sweep
C36_CountersAgree ==
    /\ CounterSum(sweeper) = Len(sweeper.outcome)
    /\ sweeper.pc \in {"details", "close_account", "close_build", "close_send",
                       "close_loop", "close_poll"} =>
          Len(sweeper.outcome) = sweeper.idx - 1
    /\ sweeper.pc = "finished" => CounterSum(sweeper) = Len(sweeper.active_proposals)

\* the step that has dealt with one more id adds one to the counter it names
\* and leaves the two others alone; any other step leaves all three alone
C36_OneCounterPerId ==
    LET n == Len(sweeper.outcome)
        by(what) == IF n' = n + 1 /\ sweeper'.outcome[n'].counted = what THEN 1 ELSE 0
    IN  /\ n' \in {n, n + 1}
        /\ n' = n + 1 =>
              /\ sweeper'.outcome[n'].id = sweeper'.active_proposals[n']
              /\ sweeper'.outcome[n'].counted \in {"closed", "skipped", "failed"}
        /\ sweeper'.closed_count = sweeper.closed_count + by("closed")
        /\ sweeper'.skipped_count = sweeper.skipped_count + by("skipped")
        /\ sweeper'.failed_count = sweeper.failed_count + by("failed")

\* C36: at every point of a sweep closed + skipped + failed equals the number
\* of ids already processed, and when the sweep finishes the sum equals the
\* length of the fetched active list: each id is counted in exactly one of the
\* three counters, and each counter only ever increases
C36_CountersPartitionTheIds ==
    [][ /\ C36_CountersAgree
        /\ C36_CountersAgree'
        /\ C36_OneCounterPerId
        /\ sweeper'.closed_count >= sweeper.closed_count
        /\ sweeper'.skipped_count >= sweeper.skipped_count
        /\ sweeper'.failed_count >= sweeper.failed_count ]_vars

\* a sweep finished having counted one id closed and another one not closed
C36_Witness ==
    /\ sweeper.pc = "finished"
    /\ Len(sweeper.active_proposals) >= 2
    /\ sweeper.closed_count = 1
    /\ sweeper.skipped_count + sweeper.failed_count = Len(sweeper.active_proposals) - 1

\* C37: createProposal always ends with a result value and never raises: every
\* call ends in exactly one of Failed, Succeeded or TimedOut, and an exception
\* raised in any step (argument preparation, account read, build, sign, submit,
\* poll, count query) is converted into a result with success = false; so a
\* call whose count query delivered no count (the only caller of the ledger
\* here, it would have been given the ledger's counter) does not end Succeeded
C37_EveryExceptionBecomesAFailure ==
    pc["c1"] = "done" =>
        /\ "success" \in DOMAIN result["c1"]
        /\ locals["c1"].attempt <= max_attempts
        /\ (/\ calls["c1"].get_total_proposals = 1
            /\ "proposal_id" \in DOMAIN result["c1"]
            /\ result["c1"].proposal_id # ledger.total_proposals)
           => ~result["c1"].success

\* the call sleeps between two polls of its transaction
Suspended(c) == pc[c] = "poll" /\ locals[c].wakeAt > now

\* C38: the sealing poll of one in-flight submission holds no shared lock:
\* while one createProposal is suspended between polls, every step of another
\* concurrent createProposal can be taken, up to its terminal outcome, and each
\* in-flight submission has its own attempt counter bounded by 30
C38_PollHoldsNoLock ==
    \A c \in ConcurrentCallers :
        /\ locals[c].attempt <= max_attempts
        /\ locals[c].attempt <= calls[c].get_transaction_result
        /\ calls[c].get_transaction_result <= calls[c].sleep
        /\ calls[c].sleep <= max_attempts
        /\ \A d \in ConcurrentCallers \ {c} :
              (Suspended(c) /\ pc[d] \notin {"idle", "done"} /\ ~Suspended(d))
                 => ENABLED Running(d)

\* c2 sleeps between two polls, while c3, which read the account after c2's
\* transaction was executed, has sent, polled, counted and ended Succeeded
C38_Witness ==
    /\ Suspended("c2")
    /\ locals["c2"].attempt >= 1
    /\ pc["c3"] = "done" /\ "success" \in DOMAIN result["c3"] /\ result["c3"].success
    /\ locals["c3"].tx_id > locals["c2"].tx_id
    /\ locals["c3"].tx.key_sequence_number > locals["c2"].tx.key_sequence_number

\* the raw value of a status the decoder can read: a scalar's value, or the
\* rawValue of an enum
RawStatus(s) == IF "value" \in DOMAIN s THEN s.value.int ELSE s.rawValue.value.int

\* C39: the status of every decoded ProposalRecord is one of active, passed,
\* rejected: raw status 0 maps to active, 1 to passed, 2 to rejected, and a
\* missing status or any other raw value maps to active
C39_StatusIsOneOfThree ==
    (query.op = "decode" /\ query.pc = "done" /\ "status" \in DOMAIN query.ret) =>
        /\ query.ret.status \in {"active", "passed", "rejected"}
        /\ query.ret.status =
              IF ~Present("status") THEN "active"
              ELSE CASE RawStatus(Found.fields.status) = 0 -> "active"
                     [] RawStatus(Found.fields.status) = 1 -> "passed"
                     [] RawStatus(Found.fields.status) = 2 -> "rejected"
                     [] OTHER -> "active"

\* an enum whose raw value is 2 decoded as rejected
C39_Witness ==
    /\ query.op = "decode" /\ query.pc = "done" /\ "status" \in DOMAIN query.ret
    /\ Present("status")
    /\ "rawValue" \in DOMAIN Found.fields.status
    /\ RawStatus(Found.fields.status) = 2
    /\ query.ret.status = "rejected"

\* the analyses of the handler's session among the first k stored
StoredFor(session_id, k) == {i \in 1..k : agent.stored[i].session_id = session_id}
\* the last of them
LatestStoredFor(session_id, k) ==
    LET S == StoredFor(session_id, k)
    IN  agent.stored[CHOOSE i \in S : \A j \in S : j <= i].analysis_data
SaysNeedAnalysis == "action" \in DOMAIN agent.reply /\ agent.reply.action = "need_analysis"
NoLedgerCall == calls["c2"] = NoCalls /\ ledger.txs = <<>> /\ pc["c2"] = "ping"

====
